---- MODULE Spec2Model ----
(***************************************************************************)
(* Job scheduling and execution subsystem of the clearinghouse backend:    *)
(* the Job Store, the job executor (services/job_executor.py), the handler *)
(* registry (services/job_handlers.py), the worker loop and the            *)
(* process-wide worker reference (services/job_worker.py), and the job     *)
(* routes that write job rows (app/routes/jobs.py).                        *)
(*                                                                         *)
(* Granularity.  A step of a loop task is one Job Store call or one piece  *)
(* of local code.  Inside one process all coroutines share one event loop: *)
(* a coroutine runs without interruption until it really suspends.  The    *)
(* executor methods are "async def" around the synchronous supabase        *)
(* client, so awaiting them never suspends: a loop task suspends only in   *)
(* asyncio.sleep and at an await inside a handler.  Other processes (other *)
(* workers, the HTTP routes) interleave with it between any two Store      *)
(* calls.                                                                  *)
(***************************************************************************)
EXTENDS Integers, Sequences, FiniteSets, TLC

(***************************************************************************)
(* Bounds of the model.                                                    *)
(***************************************************************************)
MaxJobs == 3          \* job rows the Store can hold
MaxWorkers == 2       \* JobWorker objects
MaxTasks == 2         \* _run_loop tasks ever created
MaxCalls == 2         \* stop / start_job_worker / stop_job_worker calls
MaxRequests == 1      \* HTTP requests on the job routes
MaxProcessRequests == 2   \* concurrent requests on the process route
MaxTicks == 1         \* ticks of the clock after start-up
MaxRegistryCalls == 3 \* register and handle calls on the registry after the import
MaxEarlyReturns == 1  \* stop() calls on a stopped worker counted per worker
MaxWarnings == 1      \* "Already running" warnings counted per worker
MaxCompleteCalls == 2 \* direct complete_job calls recorded per job
MaxAttempts == 1      \* max_attempts of a job row
SchedulePeriod == 2   \* distance between two occurrences of a schedule

(***************************************************************************)
(* Configuration of a worker (environment variables, scaled: one unit of   *)
(* the clock is one poll interval).                                        *)
(***************************************************************************)
job_poll_interval == 1
schedule_check_interval == 2
stale_check_interval == 3
job_batch_size == 2
ErrorLimit == 1000

JobIds == 1..MaxJobs
Workers == 1..MaxWorkers
TaskIds == 1..MaxTasks
CallIds == 1..MaxCalls
RequestIds == 1..MaxRequests
ProcessRequestIds == 1..MaxProcessRequests
ScheduleIds == {1}
AnchorIds == {1}
EntityIds == {1}
StartTime == schedule_check_interval + stale_check_interval  \* time.time() at start-up
MaxTime == StartTime + MaxTicks

Null == -1            \* a null timestamp
NoWorker == 0         \* a null worker_id, a null object reference
NoTask == 0           \* a null task reference
None == "None"        \* Python's None where a string is expected

Min(a, b) == IF a <= b THEN a ELSE b
Range(s) == {s[i] : i \in 1..Len(s)}

(***************************************************************************)
(* State.                                                                  *)
(***************************************************************************)
VARIABLES
    jobs,           \* the job rows of the Store
    schedules,      \* the schedule rows: next_run_at, and how often it was advanced
    anchors,        \* the anchor rows: updated_at, ttl
    now,            \* the clock
    proc,           \* the process each JobWorker object lives in
    worker,         \* the JobWorker objects
    tasks,          \* the _run_loop tasks
    _job_worker,    \* the module-level worker reference of job_worker.py
    calls,          \* stop / start_job_worker / stop_job_worker calls suspended at an await
    requests,       \* cancel and retry requests between their statements
    completions,    \* per job, the complete_job calls made directly on an executor
    warnings,       \* per worker, the "Already running" warnings logged
    tracing,        \* whether the loop tasks record what they dispatch and report
    claim_call,     \* a claim_jobs call made directly on an executor, with its outcome
    attempts,       \* per job, how often the Store has handed it to a claim_jobs call
    early_returns,  \* per worker, the stop() calls that found it not running
    health,         \* the dict the last get_status call returned, and its worker
    registry,       \* the entries of JobHandlerRegistry._handlers, in insertion order
    registry_calls, \* the register and handle calls made on the registry, in order
    work_tickets,   \* the rows of work_tickets, in insertion order
    answer,         \* what GET /health/jobs answered last, with what get_job_worker_status gave
    rights_entities,    \* the rights_entities rows: embedding_status
    process_requests    \* requests on the process route between their statements

vars == <<jobs, schedules, anchors, now, proc, worker, tasks, _job_worker,
          calls, requests, completions, warnings, tracing, rights_entities, process_requests, answer, work_tickets, registry, registry_calls, early_returns, health, claim_call,
          attempts>>

storeVars == <<jobs, schedules, anchors>>

(***************************************************************************)
(* Job types.  _handlers is the set of types that have a handler in the    *)
(* registry, the four of job_handlers.py after its import;                 *)
(* VALID_JOB_TYPES are the types the job routes accept (the model keeps    *)
(* one of them).                                                           *)
(***************************************************************************)
_handlers == {registry[i].job_type : i \in 1..Len(registry)}
VALID_JOB_TYPES == {"embedding_generation"}
VALID_JOB_STATUSES == {"queued", "processing", "completed", "failed", "cancelled"}
TerminalStatuses == {"completed", "failed", "cancelled"}

get_registered_types == _handlers
get_all_job_types == get_registered_types

\* the dict JobHandlerRegistry._handlers as the list of its entries, in the
\* order a Python dict keeps them; Imported is the dict after the import of
\* job_handlers.py
Handler(job_type, func) == [job_type |-> job_type, func |-> func]
Imported ==
    <<Handler("scheduled_work", "handle_scheduled_work"),
      Handler("stale_refresh", "handle_stale_refresh"),
      Handler("email_notification", "handle_email_notification"),
      Handler("llm_batch", "handle_llm_batch")>>

\* "list(cls._handlers.keys())"
keys(R) == [i \in 1..Len(R) |-> R[i].job_type]

\* "cls._handlers.get(job_type)"
get(R, job_type) ==
    IF \E i \in 1..Len(R) : R[i].job_type = job_type
    THEN R[CHOOSE i \in 1..Len(R) :
              /\ R[i].job_type = job_type
              /\ \A j \in 1..(i - 1) : R[j].job_type # job_type].func
    ELSE None

\* every registration adds an entry, also for a type that has one
register_Append(R, job_type, func) == Append(R, Handler(job_type, func))

\* "cls._handlers[job_type] = func": a new key is added at the end, the
\* value of an existing key is replaced where it is
register(R, job_type, func) ==
    IF \E i \in 1..Len(R) : R[i].job_type = job_type
    THEN [i \in 1..Len(R) |->
            IF R[i].job_type = job_type THEN Handler(job_type, func) ELSE R[i]]
    ELSE Append(R, Handler(job_type, func))

(***************************************************************************)
(* Handler outcomes: a result mapping, or an exception with its message.   *)
(* A message is a sequence of tokens; str(e) of the registry's ValueError  *)
(* ends with the job type.                                                 *)
(***************************************************************************)
Results == {"r1", "r2"}
HandlerResults == {"r1"}
HandlerErrors == {<<"boom">>}
UnknownTypeError(job_type) == <<"No handler registered for job type: ", job_type>>
\* the last ErrorLimit characters are kept instead of the first
Truncate_Tail(error) ==
    SubSeq(error, Len(error) - Min(Len(error), ErrorLimit) + 1, Len(error))
Truncate(error) == SubSeq(error, 1, Min(Len(error), ErrorLimit))

(***************************************************************************)
(* The Job Store.                                                          *)
(***************************************************************************)
NoJob == [status |-> "absent"]

NewJob(job_type, priority, payload, t) ==
    [status |-> "queued", job_type |-> job_type, priority |-> priority,
     payload |-> payload, retry_count |-> 0, max_attempts |-> MaxAttempts,
     result |-> None, error_message |-> <<>>, worker_id |-> NoWorker,
     created_at |-> t, started_at |-> Null, completed_at |-> Null,
     rights_entity_id |-> 0, asset_id |-> 0, config |-> None]

\* a row inserted by a route for an entity
EntityJob(job_type, priority, payload, t, entity, asset, config) ==
    [NewJob(job_type, priority, payload, t) EXCEPT
        !.rights_entity_id = entity, !.asset_id = asset, !.config = config]

Exists(J, id) == id \in JobIds /\ J[id].status # "absent"
FreeIds(J) == {id \in JobIds : J[id].status = "absent"}
NextId(J) == CHOOSE id \in FreeIds(J) : \A other \in FreeIds(J) : id <= other
Insert(J, row) == [J EXCEPT ![NextId(J)] = row]

\* ORDER BY priority DESC, created_at ASC (rows of one instant in insertion order)
Before(J, a, b) ==
    \/ J[a].priority > J[b].priority
    \/ J[a].priority = J[b].priority /\ J[a].created_at < J[b].created_at
    \/ J[a].priority = J[b].priority /\ J[a].created_at = J[b].created_at /\ a < b

RECURSIVE Ordered(_, _)
Ordered(J, S) ==
    IF S = {} THEN <<>>
    ELSE LET first == CHOOSE a \in S : \A b \in S \ {a} : Before(J, a, b)
         IN  <<first>> \o Ordered(J, S \ {first})

Take(s, n) == SubSeq(s, 1, Min(Len(s), n))

Eligible(J, p_job_types) ==
    {id \in JobIds : J[id].status = "queued" /\ J[id].job_type \in p_job_types}

\* RPC claim_jobs: one transaction that locks and marks the rows it returns
rpc_claim_jobs(J, p_worker_id, p_job_types, p_limit, t) ==
    LET data == Take(Ordered(J, Eligible(J, p_job_types)), p_limit)
    IN  [jobs |-> [id \in JobIds |->
                     IF id \in Range(data)
                     THEN [J[id] EXCEPT !.status = "processing",
                                        !.worker_id = p_worker_id,
                                        !.started_at = t]
                     ELSE J[id]],
         data |-> data]

\* RPC complete_job: a no-op returning false unless the row is processing
rpc_complete_job(J, p_job_id, p_result, t) ==
    IF Exists(J, p_job_id) /\ J[p_job_id].status = "processing"
    THEN [jobs |-> [J EXCEPT ![p_job_id].status = "completed",
                             ![p_job_id].result = p_result,
                             ![p_job_id].completed_at = t],
          data |-> TRUE]
    ELSE [jobs |-> J, data |-> FALSE]

\* RPC fail_job: re-queue while retry_count < max_attempts, else failed
rpc_fail_job(J, p_job_id, p_error, t) ==
    IF Exists(J, p_job_id) /\ J[p_job_id].status = "processing"
    THEN IF J[p_job_id].retry_count < J[p_job_id].max_attempts
         THEN [jobs |-> [J EXCEPT ![p_job_id].status = "queued",
                                  ![p_job_id].retry_count = @ + 1,
                                  ![p_job_id].error_message = p_error,
                                  ![p_job_id].started_at = Null],
               data |-> TRUE]
         ELSE [jobs |-> [J EXCEPT ![p_job_id].status = "failed",
                                  ![p_job_id].error_message = p_error,
                                  ![p_job_id].completed_at = t],
               data |-> TRUE]
    ELSE [jobs |-> J, data |-> FALSE]

\* payload of a job: where the row comes from
Payload(source, ref, due) == [source |-> source, ref |-> ref, due |-> due]

\* a project_schedules row that has not run yet; advanced counts how often
\* the row's next_run_at was moved on
NoTicket == 0
Schedule(next_run_at) ==
    [next_run_at |-> next_run_at, advanced |-> 0, last_run_at |-> Null,
     last_run_status |-> None, last_run_ticket_id |-> NoTicket]

Due(S, t) == {s \in ScheduleIds : S[s].next_run_at <= t}

\* RPC check_and_queue_due_schedules: per due schedule, one job and one advance
RECURSIVE queue_due(_, _, _, _)
queue_due(J, S, due, t) ==
    IF due = {} THEN [jobs |-> J, schedules |-> S, data |-> {}]
    ELSE LET s == CHOOSE x \in due : TRUE
             id == NextId(J)
             row == NewJob("scheduled_work", 0, Payload("schedule", s, S[s].next_run_at), t)
             rest == queue_due(Insert(J, row),
                               [S EXCEPT ![s].next_run_at = t + SchedulePeriod,
                                         ![s].advanced = @ + 1],
                               due \ {s}, t)
         IN  [rest EXCEPT !.data = @ \cup {<<s, id>>}]

rpc_check_and_queue_due_schedules(J, S, t) == queue_due(J, S, Due(S, t), t)

Outstanding(J, source, ref) ==
    {id \in JobIds : /\ Exists(J, id)
                     /\ J[id].status \in {"queued", "processing"}
                     /\ J[id].payload.source = source
                     /\ J[id].payload.ref = ref}

Stale(J, A, t) ==
    {a \in AnchorIds : A[a].updated_at + A[a].ttl < t /\ Outstanding(J, "anchor", a) = {}}

\* RPC check_and_queue_stale_anchors: one refresh job per stale anchor without one
RECURSIVE queue_stale(_, _, _)
queue_stale(J, stale, t) ==
    IF stale = {} THEN [jobs |-> J, data |-> {}]
    ELSE LET a == CHOOSE x \in stale : TRUE
             id == NextId(J)
             row == NewJob("stale_refresh", 0, Payload("anchor", a, Null), t)
             rest == queue_stale(Insert(J, row), stale \ {a}, t)
         IN  [rest EXCEPT !.data = @ \cup {<<a, id>>}]

rpc_check_and_queue_stale_anchors(J, A, t) == queue_stale(J, Stale(J, A, t), t)

(***************************************************************************)
(* SupabaseJobExecutor.  Each method is one RPC inside try/except; fault   *)
(* says how the Store call goes: "ok", "lost_request" (the call raises and *)
(* the Store did nothing) or "lost_response" (the call raises after the    *)
(* Store has committed).                                                   *)
(***************************************************************************)
StoreFaults == {"ok", "lost_request", "lost_response"}

\* a read of the queued rows whose update is a later statement
claim_jobs_ReadThenUpdate(J, worker_id, job_types, limit, t, fault) ==
    [jobs |-> J, data |-> rpc_claim_jobs(J, worker_id, job_types, limit, t).data]

\* the job_types argument is not passed on to the Store
claim_jobs_AnyType(J, worker_id, job_types, limit, t, fault) ==
    rpc_claim_jobs(J, worker_id, {J[id].job_type : id \in {x \in JobIds : Exists(J, x)}},
                   limit, t)

\* the rows come back sorted oldest first, whatever their priority
claim_jobs_ByAge(J, worker_id, job_types, limit, t, fault) ==
    LET response == rpc_claim_jobs(J, worker_id, job_types, limit, t)
    IN  [response EXCEPT !.data =
            Ordered([id \in JobIds |-> [priority |-> 0, created_at |-> J[id].created_at]],
                    Range(response.data))]

\* a staleness sweep: rows that have been processing since an earlier tick
\* are claimed again like queued rows
claim_jobs_Sweep(J, worker_id, job_types, limit, t, fault) ==
    rpc_claim_jobs([id \in JobIds |->
                      IF J[id].status = "processing" /\ J[id].started_at < t
                      THEN [J[id] EXCEPT !.status = "queued", !.started_at = Null]
                      ELSE J[id]],
                   worker_id, job_types, limit, t)

claim_jobs(J, worker_id, job_types, limit, t, fault) ==
    LET response == rpc_claim_jobs(J, worker_id, job_types, limit, t)
    IN  CASE fault = "ok" -> response
          [] fault = "lost_request" -> [jobs |-> J, data |-> <<>>]
          [] fault = "lost_response" -> [jobs |-> response.jobs, data |-> <<>>]

\* "return True" where the method returns the Store's answer
complete_job_AlwaysTrue(J, job_id, result, t, fault) ==
    [jobs |-> rpc_complete_job(J, job_id, result, t).jobs, data |-> TRUE]

\* the executor writes the row itself, whatever its status
complete_job_Overwrite(J, job_id, result, t, fault) ==
    IF Exists(J, job_id)
    THEN [jobs |-> [J EXCEPT ![job_id].status = "completed",
                             ![job_id].result = result,
                             ![job_id].completed_at = t],
          data |-> TRUE]
    ELSE [jobs |-> J, data |-> FALSE]

complete_job(J, job_id, result, t, fault) ==
    LET response == rpc_complete_job(J, job_id, result, t)
    IN  CASE fault = "ok" -> response
          [] fault = "lost_request" -> [jobs |-> J, data |-> FALSE]
          [] fault = "lost_response" -> [jobs |-> response.jobs, data |-> FALSE]

\* the row is marked failed by the executor itself, without the retry policy
fail_job_NoRetry(J, job_id, error, t, fault) ==
    IF Exists(J, job_id) /\ J[job_id].status = "processing"
    THEN [jobs |-> [J EXCEPT ![job_id].status = "failed",
                             ![job_id].error_message = Truncate(error),
                             ![job_id].completed_at = t],
          data |-> TRUE]
    ELSE [jobs |-> J, data |-> FALSE]

\* the row is re-queued whatever its retry_count
fail_job_AlwaysRetry(J, job_id, error, t, fault) ==
    IF Exists(J, job_id) /\ J[job_id].status = "processing"
    THEN [jobs |-> [J EXCEPT ![job_id].status = "queued",
                             ![job_id].retry_count = @ + 1,
                             ![job_id].error_message = Truncate(error),
                             ![job_id].started_at = Null],
          data |-> TRUE]
    ELSE [jobs |-> J, data |-> FALSE]

fail_job(J, job_id, error, t, fault) ==
    LET response == rpc_fail_job(J, job_id, Truncate(error), t)
    IN  CASE fault = "ok" -> response
          [] fault = "lost_request" -> [jobs |-> J, data |-> FALSE]
          [] fault = "lost_response" -> [jobs |-> response.jobs, data |-> FALSE]

\* the jobs are created and the advance of next_run_at is lost
check_schedules_NoAdvance(J, S, t, fault) ==
    [rpc_check_and_queue_due_schedules(J, S, t) EXCEPT !.schedules = S]

check_schedules(J, S, t, fault) ==
    LET response == rpc_check_and_queue_due_schedules(J, S, t)
    IN  CASE fault = "ok" -> response
          [] fault = "lost_request" -> [jobs |-> J, schedules |-> S, data |-> {}]
          [] fault = "lost_response" -> [response EXCEPT !.data = {}]

\* a refresh job for every anchor past its ttl, whether or not it has one
check_stale_anchors_EveryStale(J, A, t, fault) ==
    queue_stale(J, {a \in AnchorIds : A[a].updated_at + A[a].ttl < t}, t)

check_stale_anchors(J, A, t, fault) ==
    LET response == rpc_check_and_queue_stale_anchors(J, A, t)
    IN  CASE fault = "ok" -> response
          [] fault = "lost_request" -> [jobs |-> J, data |-> {}]
          [] fault = "lost_response" -> [response EXCEPT !.data = {}]

(***************************************************************************)
(* JobHandlerRegistry.handle: the ValueError for a type without handler,   *)
(* else whatever the handler does.                                         *)
(***************************************************************************)
Raised(error) == [kind |-> "raised", value |-> error]
Returned(result) == [kind |-> "returned", value |-> result]
Pending == [kind |-> "pending", value |-> None]

\* a missing handler is skipped silently instead of raising
handle_Silent(job_type) ==
    IF job_type \notin _handlers
    THEN {Returned(None)}
    ELSE {Returned(r) : r \in HandlerResults} \cup {Raised(e) : e \in HandlerErrors}

handle(job_type) ==
    IF job_type \notin _handlers
    THEN {Raised(UnknownTypeError(job_type))}
    ELSE {Returned(r) : r \in HandlerResults} \cup {Raised(e) : e \in HandlerErrors}

(***************************************************************************)
(* handle_scheduled_work.  Its two Store calls go through the synchronous  *)
(* client, so the handler runs to its end without suspending; each call    *)
(* can fail before or after it took effect, and the insert can answer      *)
(* without data.                                                           *)
(***************************************************************************)
InsertReplies == StoreFaults \cup {"no_data"}

\* "payload.get('schedule_id')": set by the schedule check, absent otherwise
schedule_id(payload) == IF payload.source = "schedule" THEN payload.ref ELSE 0

\* the row "supabase.table('work_tickets').insert({...})" adds
WorkTicket(T, payload) ==
    [id |-> Len(T) + 1, status |-> "pending", priority |-> 5, source |-> "scheduled",
     schedule_id |-> schedule_id(payload), triggered_at |-> payload.due]

\* "supabase.table('project_schedules').update({...}).eq('id', schedule_id)"
stamp(S, s, ticket_id, t) ==
    IF s \in ScheduleIds
    THEN [S EXCEPT ![s].last_run_at = t, ![s].last_run_status = "success",
                   ![s].last_run_ticket_id = ticket_id]
    ELSE S

\* the stamp is written whenever the payload names a schedule
handle_scheduled_work_StampAlways(T, S, payload, t, reply, fault) ==
    LET inserted == IF reply = "lost_request" THEN T ELSE Append(T, WorkTicket(T, payload))
        work_ticket_id == IF reply = "ok" THEN Len(T) + 1 ELSE NoTicket
        s == schedule_id(payload)
    IN  IF reply \in {"lost_request", "lost_response"}
        THEN [work_tickets |-> inserted, schedules |-> S, outcome |-> Raised(<<"boom">>)]
        ELSE IF s # 0
        THEN [work_tickets |-> inserted,
              schedules |-> IF fault = "lost_request" THEN S
                            ELSE stamp(S, s, work_ticket_id, t),
              outcome |-> IF fault = "ok"
                          THEN Returned([work_ticket_id |-> work_ticket_id, status |-> "queued"])
                          ELSE Raised(<<"boom">>)]
        ELSE [work_tickets |-> inserted, schedules |-> S,
              outcome |-> Returned([work_ticket_id |-> work_ticket_id, status |-> "queued"])]

\* the ticket insert, then "if schedule_id and work_ticket_id" the stamp,
\* then the result
handle_scheduled_work(T, S, payload, t, reply, fault) ==
    LET inserted == IF reply = "lost_request" THEN T ELSE Append(T, WorkTicket(T, payload))
        work_ticket_id == IF reply = "ok" THEN Len(T) + 1 ELSE NoTicket
        s == schedule_id(payload)
    IN  IF reply \in {"lost_request", "lost_response"}
        THEN [work_tickets |-> inserted, schedules |-> S, outcome |-> Raised(<<"boom">>)]
        ELSE IF s # 0 /\ work_ticket_id # NoTicket
        THEN [work_tickets |-> inserted,
              schedules |-> IF fault = "lost_request" THEN S
                            ELSE stamp(S, s, work_ticket_id, t),
              outcome |-> IF fault = "ok"
                          THEN Returned([work_ticket_id |-> work_ticket_id, status |-> "queued"])
                          ELSE Raised(<<"boom">>)]
        ELSE [work_tickets |-> inserted, schedules |-> S,
              outcome |-> Returned([work_ticket_id |-> work_ticket_id, status |-> "queued"])]

(***************************************************************************)
(* JobWorker objects and their loop tasks.                                 *)
(***************************************************************************)
Unconstructed ==
    [constructed |-> FALSE, running |-> FALSE, _task |-> NoTask,
     _last_schedule_check |-> 0, _last_stale_check |-> 0, _job_types |-> {}]

\* the worker asks for every type the job routes accept as well
JobWorker_ValidJobTypes ==
    [constructed |-> TRUE, running |-> FALSE, _task |-> NoTask,
     _last_schedule_check |-> 0, _last_stale_check |-> 0,
     _job_types |-> get_all_job_types \cup VALID_JOB_TYPES]

\* the last-check timestamps start at the time of the start-up
JobWorker_CheckedAtStart ==
    [constructed |-> TRUE, running |-> FALSE, _task |-> NoTask,
     _last_schedule_check |-> StartTime, _last_stale_check |-> StartTime,
     _job_types |-> get_all_job_types]

\* JobWorker.__init__
JobWorker ==
    [constructed |-> TRUE, running |-> FALSE, _task |-> NoTask,
     _last_schedule_check |-> 0, _last_stale_check |-> 0,
     _job_types |-> get_all_job_types]

NoHealth == [w |-> NoWorker, status |-> <<>>]

NoResponse == [read |-> Pending, status_code |-> 0, content |-> <<>>]

NoTaskRec ==
    [w |-> NoWorker, pc |-> "none", must_cancel |-> FALSE, current_time |-> 0,
     batch |-> <<>>, outcome |-> Pending, wake_at |-> 0, claimed |-> <<>>,
     trace |-> <<>>, store_calls |-> <<>>]

\* the executor calls of an iteration, kept while tracing: the method, the
\* job it reports on (0 where it has none), how the Store call went, and
\* what the method returned (of a list, its length)
StoreCall(task, fn, job, fault, returned) ==
    IF tracing
    THEN [task EXCEPT !.store_calls =
             Append(@, [fn |-> fn, job |-> job, fault |-> fault, returned |-> returned])]
    ELSE task

\* asyncio.create_task(self._run_loop())
create_task(w) == [NoTaskRec EXCEPT !.w = w, !.pc = "new"]

FreeTasks == {t \in TaskIds : tasks[t].pc = "none"}
NextTask == CHOOSE t \in FreeTasks : \A other \in FreeTasks : t <= other
FreeWorkers == {w \in Workers : ~worker[w].constructed}
NextWorker == CHOOSE w \in FreeWorkers : \A other \in FreeWorkers : w <= other

\* where a task is suspended, or has not started, or has finished
SuspendedPcs == {"none", "new", "sleep", "await", "done"}
\* a task of process p holds the event loop: nothing else of p runs
Busy(p) == \E t \in TaskIds : tasks[t].pc \notin SuspendedPcs /\ proc[tasks[t].w] = p
Live(t) == tasks[t].pc \notin {"none", "done"}

\* start without the "if self.running" check
start_Unguarded(W, T, w, t) ==
    IF t = NoTask
    THEN [worker |-> W, tasks |-> T, warned |-> W[w].running]
    ELSE [worker |-> [W EXCEPT ![w].running = TRUE, ![w]._task = t],
          tasks |-> [T EXCEPT ![t] = create_task(w)],
          warned |-> W[w].running]

\* JobWorker.start
start(W, T, w, t) ==
    IF W[w].running
    THEN [worker |-> W, tasks |-> T, warned |-> TRUE]
    ELSE [worker |-> [W EXCEPT ![w].running = TRUE, ![w]._task = t],
          tasks |-> [T EXCEPT ![t] = create_task(w)],
          warned |-> FALSE]

\* stop() without "self._task.cancel()"
cancel_NoOp(T, t) == T

\* Task.cancel: no effect on a task that is done
cancel(T, t) == IF T[t].pc = "done" THEN T ELSE [T EXCEPT ![t].must_cancel = TRUE]

\* JobWorker.stop up to "await self._task"; awaits says whether it suspends there
\* stop without the "if not self.running" check
stop_Unguarded(W, T, w) ==
    LET t == W[w]._task
    IN  [worker |-> [W EXCEPT ![w].running = FALSE],
         tasks |-> IF t # NoTask THEN cancel(T, t) ELSE T,
         awaits |-> IF t # NoTask /\ T[t].pc # "done" THEN t ELSE NoTask]

stop(W, T, w) ==
    IF ~W[w].running
    THEN [worker |-> W, tasks |-> T, awaits |-> NoTask]
    ELSE LET t == W[w]._task
         IN  [worker |-> [W EXCEPT ![w].running = FALSE],
              tasks |-> IF t # NoTask THEN cancel(T, t) ELSE T,
              awaits |-> IF t # NoTask /\ T[t].pc # "done" THEN t ELSE NoTask]

NoCall == [fn |-> "none", w |-> NoWorker, t |-> NoTask]
NoClaimCall == [fn |-> "none"]
FreeCalls == {c \in CallIds : calls[c].fn = "none"}
NextCall == CHOOSE c \in FreeCalls : \A other \in FreeCalls : c <= other

\* a direct call of JobWorker.start
Start(w) ==
    /\ worker[w].constructed
    /\ ~Busy(proc[w])
    /\ worker[w].running \/ FreeTasks # {}
    /\ worker[w].running => warnings[w] < MaxWarnings
    /\ LET t == IF FreeTasks # {} THEN NextTask ELSE NoTask
           r == start(worker, tasks, w, t)
       IN  /\ worker' = r.worker
           /\ tasks' = r.tasks
           /\ warnings' = IF r.warned THEN [warnings EXCEPT ![w] = @ + 1] ELSE warnings
    /\ UNCHANGED <<storeVars, now, proc, tracing, rights_entities, process_requests, answer, work_tickets, registry, registry_calls, early_returns, health, attempts, claim_call, _job_worker, calls, requests, completions>>

\* the call of JobWorker.start that a process makes at start-up
StartOnce(w) == ~worker[w].running /\ Start(w)

\* a direct call of JobWorker.stop, up to its await
Stop(w) ==
    /\ worker[w].constructed
    /\ ~Busy(proc[w])
    /\ FreeCalls # {}
    /\ LET r == stop(worker, tasks, w)
       IN  /\ worker' = r.worker
           /\ tasks' = r.tasks
           /\ calls' = IF r.awaits # NoTask
                       THEN [calls EXCEPT ![NextCall] = [fn |-> "stop", w |-> w, t |-> r.awaits]]
                       ELSE calls
    /\ UNCHANGED <<storeVars, now, proc, tracing, rights_entities, process_requests, answer, work_tickets, registry, registry_calls, early_returns, health, attempts, claim_call, _job_worker, requests, completions, warnings>>

\* "await self._task" of a stop() returns: the task has finished
StopReturn(c) ==
    /\ calls[c].fn = "stop"
    /\ tasks[calls[c].t].pc = "done"
    /\ ~Busy(proc[calls[c].w])
    /\ calls' = [calls EXCEPT ![c] = NoCall]
    /\ UNCHANGED <<storeVars, now, proc, tracing, rights_entities, process_requests, answer, work_tickets, registry, registry_calls, early_returns, health, attempts, claim_call, worker, tasks, _job_worker, requests,
                   completions, warnings>>

\* a call of JobWorker.stop that finds the worker not running, counted
StopNotRunning(w) ==
    /\ worker[w].constructed
    /\ ~worker[w].running
    /\ ~Busy(proc[w])
    /\ FreeCalls # {}
    /\ early_returns[w] < MaxEarlyReturns
    /\ LET r == stop(worker, tasks, w)
       IN  /\ worker' = r.worker
           /\ tasks' = r.tasks
           /\ calls' = IF r.awaits # NoTask
                       THEN [calls EXCEPT ![NextCall] = [fn |-> "stop", w |-> w, t |-> r.awaits]]
                       ELSE calls
    /\ early_returns' = [early_returns EXCEPT ![w] = @ + 1]
    /\ UNCHANGED <<storeVars, now, proc, tracing, rights_entities, process_requests, answer, work_tickets, registry, registry_calls, health, claim_call, attempts, _job_worker, requests,
                   completions, warnings>>

(***************************************************************************)
(* JobWorker._run_loop, one step per Store call.                           *)
(***************************************************************************)
\* no pacing: the schedules are checked in every iteration
ScheduleCheckDue_EveryIteration(w, current_time) == TRUE

ScheduleCheckDue(w, current_time) ==
    current_time - worker[w]._last_schedule_check >= schedule_check_interval
StaleCheckDue(w, current_time) ==
    current_time - worker[w]._last_stale_check >= stale_check_interval

\* the task starts, or its sleep ends: "while self.running", then the checks due
Wake(t) ==
    /\ tasks[t].pc \in {"new", "sleep"}
    /\ ~tasks[t].must_cancel
    /\ tasks[t].pc = "sleep" => now >= tasks[t].wake_at
    /\ ~Busy(proc[tasks[t].w])
    /\ LET w == tasks[t].w
       IN  tasks' = [tasks EXCEPT ![t] =
              IF ~worker[w].running
              THEN [@ EXCEPT !.pc = "done"]
              ELSE [@ EXCEPT !.current_time = now, !.wake_at = 0,
                             !.claimed = <<>>, !.trace = <<>>, !.store_calls = <<>>,
                             !.pc = IF ScheduleCheckDue(w, now) THEN "schedules"
                                    ELSE IF StaleCheckDue(w, now) THEN "stale"
                                    ELSE "claim"]]
    /\ UNCHANGED <<storeVars, now, proc, tracing, rights_entities, process_requests, answer, work_tickets, registry, registry_calls, early_returns, health, attempts, claim_call, worker, _job_worker, calls, requests,
                   completions, warnings>>

\* "await asyncio.sleep(self.job_poll_interval)" begins
Sleeping(task) ==
    [task EXCEPT !.pc = "sleep", !.wake_at = now + job_poll_interval,
                 !.current_time = 0, !.batch = <<>>, !.outcome = Pending]

\* a failure of check_schedules caught by nothing but the "except Exception"
\* of _run_loop: the rest of the iteration is skipped
CheckSchedules_Uncaught(t, fault) ==
    /\ tasks[t].pc = "schedules"
    /\ Cardinality(FreeIds(jobs)) >= Cardinality(Due(schedules, now))
    /\ LET w == tasks[t].w
           r == check_schedules(jobs, schedules, now, fault)
       IN  /\ jobs' = r.jobs
           /\ schedules' = r.schedules
           /\ worker' = IF fault # "ok" THEN worker
                        ELSE [worker EXCEPT ![w]._last_schedule_check = tasks[t].current_time]
           /\ tasks' = [tasks EXCEPT ![t] =
                 StoreCall(IF fault # "ok" THEN Sleeping(@)
                           ELSE [@ EXCEPT !.pc = IF StaleCheckDue(w, tasks[t].current_time)
                                                 THEN "stale" ELSE "claim"],
                           "check_schedules", 0, fault, Cardinality(r.data))]
    /\ UNCHANGED <<anchors, now, proc, tracing, rights_entities, process_requests, answer, work_tickets, registry, registry_calls, early_returns, health, attempts, claim_call, _job_worker, calls,
                   requests, completions, warnings>>

\* _check_schedules, then "self._last_schedule_check = current_time"
CheckSchedules(t, fault) ==
    /\ tasks[t].pc = "schedules"
    /\ Cardinality(FreeIds(jobs)) >= Cardinality(Due(schedules, now))
    /\ LET w == tasks[t].w
           r == check_schedules(jobs, schedules, now, fault)
       IN  /\ jobs' = r.jobs
           /\ schedules' = r.schedules
           /\ worker' = [worker EXCEPT ![w]._last_schedule_check = tasks[t].current_time]
           /\ tasks' = [tasks EXCEPT ![t] =
                 StoreCall([@ EXCEPT !.pc = IF StaleCheckDue(w, tasks[t].current_time)
                                            THEN "stale" ELSE "claim"],
                           "check_schedules", 0, fault, Cardinality(r.data))]
    /\ UNCHANGED <<anchors, now, proc, tracing, rights_entities, process_requests, answer, work_tickets, registry, registry_calls, early_returns, health, attempts, claim_call, _job_worker, calls, requests, completions, warnings>>

\* the stale check ends the iteration: claim_jobs runs only in iterations
\* without it
CheckStaleAnchors_InsteadOfClaim(t, fault) ==
    /\ tasks[t].pc = "stale"
    /\ Cardinality(FreeIds(jobs)) >= Cardinality(Stale(jobs, anchors, now))
    /\ LET w == tasks[t].w
           r == check_stale_anchors(jobs, anchors, now, fault)
       IN  /\ jobs' = r.jobs
           /\ worker' = [worker EXCEPT ![w]._last_stale_check = tasks[t].current_time]
           /\ tasks' = [tasks EXCEPT ![t] =
                 StoreCall(Sleeping(@),
                           "check_stale_anchors", 0, fault, Cardinality(r.data))]
    /\ UNCHANGED <<schedules, anchors, now, proc, tracing, rights_entities, process_requests, answer, work_tickets, registry, registry_calls, early_returns, health, attempts, claim_call, _job_worker, calls, requests,
                   completions, warnings>>

\* _check_stale_anchors, then "self._last_stale_check = current_time"
CheckStaleAnchors(t, fault) ==
    /\ tasks[t].pc = "stale"
    /\ Cardinality(FreeIds(jobs)) >= Cardinality(Stale(jobs, anchors, now))
    /\ LET w == tasks[t].w
           r == check_stale_anchors(jobs, anchors, now, fault)
       IN  /\ jobs' = r.jobs
           /\ worker' = [worker EXCEPT ![w]._last_stale_check = tasks[t].current_time]
           /\ tasks' = [tasks EXCEPT ![t] =
                 StoreCall([@ EXCEPT !.pc = "claim"],
                           "check_stale_anchors", 0, fault, Cardinality(r.data))]
    /\ UNCHANGED <<schedules, anchors, now, proc, tracing, rights_entities, process_requests, answer, work_tickets, registry, registry_calls, early_returns, health, attempts, claim_call, _job_worker, calls, requests,
                   completions, warnings>>

\* the attempts after a claim_jobs call has turned the table J into K
Attempted(J, K) ==
    [id \in JobIds |->
        IF K[id].status = "processing" /\ J[id].status = "queued"
        THEN attempts[id] + 1 ELSE attempts[id]]

\* a failure of claim_jobs that is not caught anywhere ends the loop task
ProcessJobs_Uncaught(t, fault) ==
    /\ tasks[t].pc = "claim"
    /\ LET w == tasks[t].w
           r == claim_jobs(jobs, w, worker[w]._job_types, job_batch_size, now, fault)
       IN  /\ jobs' = r.jobs
           /\ attempts' = Attempted(jobs, r.jobs)
           /\ tasks' = [tasks EXCEPT ![t] =
                 StoreCall(IF fault # "ok"
                           THEN [@ EXCEPT !.pc = "done"]
                           ELSE IF r.data = <<>>
                           THEN Sleeping(@)
                           ELSE [@ EXCEPT !.pc = "dispatch", !.batch = r.data,
                                          !.claimed = IF tracing THEN r.data ELSE <<>>],
                           "claim_jobs", 0, fault, Len(r.data))]
    /\ UNCHANGED <<schedules, anchors, now, proc, tracing, rights_entities, process_requests, answer, work_tickets, registry, registry_calls, early_returns, health, claim_call, worker, _job_worker, calls,
                   requests, completions, warnings>>

\* claim_jobs is given the types registered at the time of the call
ProcessJobs_CurrentTypes(t, fault) ==
    /\ tasks[t].pc = "claim"
    /\ LET w == tasks[t].w
           r == claim_jobs(jobs, w, get_all_job_types, job_batch_size, now, fault)
       IN  /\ jobs' = r.jobs
           /\ attempts' = Attempted(jobs, r.jobs)
           /\ tasks' = [tasks EXCEPT ![t] =
                 StoreCall(IF r.data = <<>>
                           THEN Sleeping(@)
                           ELSE [@ EXCEPT !.pc = "dispatch", !.batch = r.data,
                                          !.claimed = IF tracing THEN r.data ELSE <<>>],
                           "claim_jobs", 0, fault, Len(r.data))]
    /\ UNCHANGED <<schedules, anchors, now, proc, tracing, rights_entities, process_requests, answer, work_tickets, registry, registry_calls, early_returns, health, claim_call, worker, _job_worker, calls,
                   requests, completions, warnings>>

\* _process_jobs up to the loop over the batch
ProcessJobs(t, fault) ==
    /\ tasks[t].pc = "claim"
    /\ LET w == tasks[t].w
           r == claim_jobs(jobs, w, worker[w]._job_types, job_batch_size, now, fault)
       IN  /\ jobs' = r.jobs
           /\ attempts' = Attempted(jobs, r.jobs)
           /\ tasks' = [tasks EXCEPT ![t] =
                 StoreCall(IF r.data = <<>>
                           THEN Sleeping(@)
                           ELSE [@ EXCEPT !.pc = "dispatch", !.batch = r.data,
                                          !.claimed = IF tracing THEN r.data ELSE <<>>],
                           "claim_jobs", 0, fault, Len(r.data))]
    /\ UNCHANGED <<schedules, anchors, now, proc, tracing, rights_entities, process_requests, answer, work_tickets, registry, registry_calls, early_returns, health, claim_call, worker, _job_worker, calls,
                   requests, completions, warnings>>

Entry(job, outcome, awaited) ==
    [job |-> job, outcome |-> outcome, awaited |-> awaited, reports |-> <<>>]
Report(fn, arg) == [fn |-> fn, arg |-> arg]
\* the record of a batch, kept while tracing
Traced(task, entry) ==
    IF tracing THEN [task EXCEPT !.trace = Append(@, entry)] ELSE task
Resolved(task, outcome) ==
    IF tracing THEN [task EXCEPT !.trace[Len(task.trace)].outcome = outcome] ELSE task
Logged(task, report) ==
    IF tracing THEN [task EXCEPT !.trace[Len(task.trace)].reports = Append(@, report)]
    ELSE task

AfterOutcome(task, outcome) ==
    [task EXCEPT !.outcome = outcome,
                 !.pc = IF outcome.kind = "returned" THEN "complete" ELSE "fail"]

\* the loop over the batch takes the jobs in any order
Dispatch_AnyOrder(t) ==
    /\ tasks[t].pc = "dispatch"
    /\ \E job \in Range(tasks[t].batch) :
          LET job_type == jobs[job].job_type
          IN  \/ \E outcome \in handle(job_type) :
                   tasks' = [tasks EXCEPT ![t] =
                      Traced(AfterOutcome(@, outcome), Entry(job, outcome, FALSE))]
              \/ /\ job_type \in _handlers
                 /\ tasks' = [tasks EXCEPT ![t] =
                       Traced([@ EXCEPT !.pc = "await"], Entry(job, Pending, TRUE))]
    /\ UNCHANGED <<storeVars, now, proc, tracing, rights_entities, process_requests, answer, work_tickets, registry, registry_calls, early_returns, health, attempts, claim_call, worker, _job_worker, calls, requests,
                   completions, warnings>>

\* _process_single_job: JobHandlerRegistry.handle(job) runs to its end or suspends
Dispatch(t) ==
    /\ tasks[t].pc = "dispatch"
    /\ LET job == Head(tasks[t].batch)
           job_type == jobs[job].job_type
       IN  \/ \E outcome \in handle(job_type) :
                tasks' = [tasks EXCEPT ![t] =
                   Traced(AfterOutcome(@, outcome), Entry(job, outcome, FALSE))]
           \/ /\ job_type \in _handlers
              /\ tasks' = [tasks EXCEPT ![t] =
                    Traced([@ EXCEPT !.pc = "await"], Entry(job, Pending, TRUE))]
    /\ UNCHANGED <<storeVars, now, proc, tracing, rights_entities, process_requests, answer, work_tickets, registry, registry_calls, early_returns, health, attempts, claim_call, worker, _job_worker, calls, requests,
                   completions, warnings>>

\* the handler resumes from its await and runs to its end
HandlerResume(t) ==
    /\ tasks[t].pc = "await"
    /\ ~tasks[t].must_cancel
    /\ ~Busy(proc[tasks[t].w])
    /\ \E outcome \in handle(jobs[Head(tasks[t].batch)].job_type) :
          tasks' = [tasks EXCEPT ![t] = Resolved(AfterOutcome(@, outcome), outcome)]
    /\ UNCHANGED <<storeVars, now, proc, tracing, rights_entities, process_requests, answer, work_tickets, registry, registry_calls, early_returns, health, attempts, claim_call, worker, _job_worker, calls, requests,
                   completions, warnings>>

\* the job at the head of the batch has been reported: next job, or sleep
Reported(task, report) ==
    LET logged == [Logged(task, report) EXCEPT !.batch = Tail(@), !.outcome = Pending]
    IN  IF Len(task.batch) > 1
        THEN [logged EXCEPT !.pc = "dispatch"]
        ELSE Sleeping(logged)

\* complete_job raises after its Store call, and the except branch reports too
CompleteJob_ThenFail(t, fault) ==
    /\ tasks[t].pc = "complete"
    /\ LET job == Head(tasks[t].batch)
           result == tasks[t].outcome.value
           r == complete_job(jobs, job, result, now, fault)
           f == fail_job(r.jobs, job, <<"boom">>, now, fault)
           logged == Logged(StoreCall(tasks[t], "complete_job", job, fault, r.data),
                            Report("complete_job", result))
       IN  /\ jobs' = f.jobs
           /\ tasks' = [tasks EXCEPT ![t] =
                 Reported(StoreCall(logged, "fail_job", job, fault, f.data),
                          Report("fail_job", <<"boom">>))]
    /\ UNCHANGED <<schedules, anchors, now, proc, tracing, rights_entities, process_requests, answer, work_tickets, registry, registry_calls, early_returns, health, attempts, claim_call, worker, _job_worker, calls,
                   requests, completions, warnings>>

\* complete_job lets the failure of its Store call out, and the except
\* branch of _process_single_job reports the job as failed
CompleteJob_Reraise(t, fault) ==
    /\ tasks[t].pc = "complete"
    /\ LET job == Head(tasks[t].batch)
           result == tasks[t].outcome.value
           r == complete_job(jobs, job, result, now, fault)
           f == fail_job(r.jobs, job, <<"boom">>, now, "ok")
           logged == Logged(StoreCall(tasks[t], "complete_job", job, fault, r.data),
                            Report("complete_job", result))
       IN  IF fault = "ok"
           THEN /\ jobs' = r.jobs
                /\ tasks' = [tasks EXCEPT ![t] =
                      Reported(StoreCall(@, "complete_job", job, fault, r.data),
                               Report("complete_job", result))]
           ELSE /\ jobs' = f.jobs
                /\ tasks' = [tasks EXCEPT ![t] =
                      Reported(StoreCall(logged, "fail_job", job, "ok", f.data),
                               Report("fail_job", <<"boom">>))]
    /\ UNCHANGED <<schedules, anchors, now, proc, tracing, rights_entities, process_requests, answer, work_tickets, registry, registry_calls, early_returns, health, attempts, claim_call, worker, _job_worker, calls,
                   requests, completions, warnings>>

\* "await self.executor.complete_job(job_id, result)"
CompleteJob(t, fault) ==
    /\ tasks[t].pc = "complete"
    /\ LET job == Head(tasks[t].batch)
           result == tasks[t].outcome.value
           r == complete_job(jobs, job, result, now, fault)
       IN  /\ jobs' = r.jobs
           /\ tasks' = [tasks EXCEPT ![t] =
                 Reported(StoreCall(@, "complete_job", job, fault, r.data),
                          Report("complete_job", result))]
    /\ UNCHANGED <<schedules, anchors, now, proc, tracing, rights_entities, process_requests, answer, work_tickets, registry, registry_calls, early_returns, health, attempts, claim_call, worker, _job_worker, calls,
                   requests, completions, warnings>>

\* one try/except around the whole batch: the first failure ends the batch
FailJob_AbortBatch(t, fault) ==
    /\ tasks[t].pc = "fail"
    /\ tasks' = [tasks EXCEPT ![t] = Sleeping(@)]
    /\ UNCHANGED <<storeVars, now, proc, tracing, rights_entities, process_requests, answer, work_tickets, registry, registry_calls, early_returns, health, attempts, claim_call, worker, _job_worker, calls, requests,
                   completions, warnings>>

\* "except Exception as e: await self.executor.fail_job(job_id, str(e))"
FailJob(t, fault) ==
    /\ tasks[t].pc = "fail"
    /\ LET job == Head(tasks[t].batch)
           error == tasks[t].outcome.value
           r == fail_job(jobs, job, error, now, fault)
       IN  /\ jobs' = r.jobs
           /\ tasks' = [tasks EXCEPT ![t] =
                 Reported(StoreCall(@, "fail_job", job, fault, r.data),
                          Report("fail_job", error))]
    /\ UNCHANGED <<schedules, anchors, now, proc, tracing, rights_entities, process_requests, answer, work_tickets, registry, registry_calls, early_returns, health, attempts, claim_call, worker, _job_worker, calls,
                   requests, completions, warnings>>

\* CancelledError caught like any exception of the handler: the job is
\* reported as failed and the loop goes on
Cancelled_CaughtAsException(t) ==
    /\ tasks[t].pc \in {"new", "sleep", "await"}
    /\ tasks[t].must_cancel
    /\ ~Busy(proc[tasks[t].w])
    /\ tasks' = [tasks EXCEPT ![t] =
          IF @.pc = "await"
          THEN [AfterOutcome(@, Raised(<<>>)) EXCEPT !.must_cancel = FALSE]
          ELSE [@ EXCEPT !.pc = "done"]]
    /\ UNCHANGED <<storeVars, now, proc, tracing, rights_entities, process_requests, answer, work_tickets, registry, registry_calls, early_returns, health, attempts, claim_call, worker, _job_worker, calls, requests,
                   completions, warnings>>

\* CancelledError is thrown into the task where it is suspended: inside a
\* handler it passes every "except Exception" and reaches "break"; in the
\* sleep it leaves _run_loop; a task that has not started never runs
Cancelled(t) ==
    /\ tasks[t].pc \in {"new", "sleep", "await"}
    /\ tasks[t].must_cancel
    /\ ~Busy(proc[tasks[t].w])
    /\ tasks' = [tasks EXCEPT ![t].pc = "done"]
    /\ UNCHANGED <<storeVars, now, proc, tracing, rights_entities, process_requests, answer, work_tickets, registry, registry_calls, early_returns, health, attempts, claim_call, worker, _job_worker, calls, requests,
                   completions, warnings>>

\* _process_single_job on a scheduled_work job, with the handler of
\* job_handlers.py run on the work_tickets and project_schedules tables
HandleScheduledWork(t, reply, fault) ==
    /\ tasks[t].pc = "dispatch"
    /\ jobs[Head(tasks[t].batch)].job_type = "scheduled_work"
    /\ get(registry, "scheduled_work") = "handle_scheduled_work"
    /\ LET job == Head(tasks[t].batch)
           r == handle_scheduled_work(work_tickets, schedules, jobs[job].payload, now,
                                      reply, fault)
       IN  /\ work_tickets' = r.work_tickets
           /\ schedules' = r.schedules
           /\ tasks' = [tasks EXCEPT ![t] =
                 Traced(AfterOutcome(@, r.outcome), Entry(job, r.outcome, FALSE))]
    /\ UNCHANGED <<jobs, anchors, now, proc, tracing, rights_entities, process_requests, answer, registry, registry_calls, early_returns, health,
                   attempts, claim_call, worker, _job_worker, calls, requests, completions,
                   warnings>>

\* the clock, in poll intervals: time passes while the loop tasks sleep, the
\* steps of an iteration take no time on it
Tick ==
    /\ now < MaxTime
    /\ \A t \in TaskIds : tasks[t].pc \in {"none", "sleep", "done"}
    /\ now' = now + 1
    /\ UNCHANGED <<storeVars, proc, tracing, rights_entities, process_requests, answer, work_tickets, registry, registry_calls, early_returns, health, attempts, claim_call, worker, tasks, _job_worker, calls, requests,
                   completions, warnings>>

\* "datetime.fromtimestamp(ts).isoformat() if ts else None"
isoformat(ts) == IF ts = 0 THEN <<>> ELSE <<"iso", ts>>

\* the status reports whether the worker has a task, not its running flag
get_status_HasTask(W, w) ==
    [running |-> W[w]._task # NoTask,
     worker_id |-> w,
     last_schedule_check |-> isoformat(W[w]._last_schedule_check),
     last_stale_check |-> isoformat(W[w]._last_stale_check),
     job_types |-> W[w]._job_types,
     config |-> [job_poll_interval |-> job_poll_interval,
                 schedule_check_interval |-> schedule_check_interval,
                 stale_check_interval |-> stale_check_interval,
                 job_batch_size |-> job_batch_size]]

\* JobWorker.get_status: a dict built from the worker's fields
get_status(W, w) ==
    [running |-> W[w].running,
     worker_id |-> w,
     last_schedule_check |-> isoformat(W[w]._last_schedule_check),
     last_stale_check |-> isoformat(W[w]._last_stale_check),
     job_types |-> W[w]._job_types,
     config |-> [job_poll_interval |-> job_poll_interval,
                 schedule_check_interval |-> schedule_check_interval,
                 stale_check_interval |-> stale_check_interval,
                 job_batch_size |-> job_batch_size]]

\* a call of get_status on worker w, from the health check: the method is
\* synchronous and may be called from another thread at any point of the loop
GetStatus(w) ==
    /\ worker[w].constructed
    /\ health' = [w |-> w, status |-> get_status(worker, w)]
    /\ UNCHANGED <<storeVars, now, proc, tracing, rights_entities, process_requests, answer, work_tickets, registry, registry_calls, early_returns, claim_call, attempts, worker, tasks,
                   _job_worker, calls, requests, completions, warnings>>

(***************************************************************************)
(* The module-level worker of job_worker.py.  All its workers live in the  *)
(* process MainProcess.                                                    *)
(***************************************************************************)
MainProcess == 1

\* "_job_worker = JobWorker(...)" and "await _job_worker.start()"
ConstructAndStart(W, T) ==
    /\ FreeWorkers # {}
    /\ FreeTasks # {}
    /\ LET w == NextWorker
           r == start([W EXCEPT ![w] = JobWorker], T, w, NextTask)
       IN  /\ worker' = r.worker
           /\ tasks' = r.tasks
           /\ _job_worker' = w

\* start_job_worker, up to the await inside the old worker's stop()
start_job_worker ==
    /\ ~Busy(MainProcess)
    /\ \/ /\ _job_worker = NoWorker
          /\ ConstructAndStart(worker, tasks)
          /\ UNCHANGED calls
       \/ /\ _job_worker # NoWorker
          /\ LET r == stop(worker, tasks, _job_worker)
             IN  \/ /\ r.awaits = NoTask
                    /\ ConstructAndStart(r.worker, r.tasks)
                    /\ UNCHANGED calls
                 \/ /\ r.awaits # NoTask
                    /\ FreeCalls # {}
                    /\ worker' = r.worker
                    /\ tasks' = r.tasks
                    /\ calls' = [calls EXCEPT ![NextCall] =
                          [fn |-> "start_job_worker", w |-> _job_worker, t |-> r.awaits]]
                    /\ UNCHANGED _job_worker
    /\ UNCHANGED <<storeVars, now, proc, tracing, rights_entities, process_requests, answer, work_tickets, registry, registry_calls, early_returns, health, attempts, claim_call, requests, completions, warnings>>

\* the old task has finished: "_job_worker = None" of stop_job_worker, then
\* the rest of start_job_worker
start_job_worker_resume(c) ==
    /\ calls[c].fn = "start_job_worker"
    /\ tasks[calls[c].t].pc = "done"
    /\ ~Busy(MainProcess)
    /\ ConstructAndStart(worker, tasks)
    /\ calls' = [calls EXCEPT ![c] = NoCall]
    /\ UNCHANGED <<storeVars, now, proc, tracing, rights_entities, process_requests, answer, work_tickets, registry, registry_calls, early_returns, health, attempts, claim_call, requests, completions, warnings>>

\* stop_job_worker, up to the await inside stop()
stop_job_worker ==
    /\ ~Busy(MainProcess)
    /\ \/ /\ _job_worker = NoWorker
          /\ UNCHANGED <<worker, tasks, calls, _job_worker>>
       \/ /\ _job_worker # NoWorker
          /\ LET r == stop(worker, tasks, _job_worker)
             IN  /\ worker' = r.worker
                 /\ tasks' = r.tasks
                 /\ \/ /\ r.awaits = NoTask
                       /\ _job_worker' = NoWorker
                       /\ UNCHANGED calls
                    \/ /\ r.awaits # NoTask
                       /\ FreeCalls # {}
                       /\ calls' = [calls EXCEPT ![NextCall] =
                             [fn |-> "stop_job_worker", w |-> _job_worker, t |-> r.awaits]]
                       /\ UNCHANGED _job_worker
    /\ UNCHANGED <<storeVars, now, proc, tracing, rights_entities, process_requests, answer, work_tickets, registry, registry_calls, early_returns, health, attempts, claim_call, requests, completions, warnings>>

\* the task has finished: "_job_worker = None"
stop_job_worker_resume(c) ==
    /\ calls[c].fn = "stop_job_worker"
    /\ tasks[calls[c].t].pc = "done"
    /\ ~Busy(MainProcess)
    /\ _job_worker' = NoWorker
    /\ calls' = [calls EXCEPT ![c] = NoCall]
    /\ UNCHANGED <<storeVars, now, proc, tracing, rights_entities, process_requests, answer, work_tickets, registry, registry_calls, early_returns, health, attempts, claim_call, worker, tasks, requests, completions, warnings>>

NotInitialized == [running |-> FALSE, error |-> "Worker not initialized"]

\* get_job_worker_status, for the health check
get_job_worker_status ==
    IF _job_worker = NoWorker THEN NotInitialized ELSE get_status(worker, _job_worker)

\* "status.get('running', False)"
running_of(status) == IF "running" \in DOMAIN status THEN status.running ELSE FALSE

\* the health route reports ok whatever the status says
health_jobs_AlwaysOk(read) ==
    IF read.kind = "returned"
    THEN [read |-> read, status_code |-> 200,
          content |-> read.value @@ [ok |-> TRUE]]
    ELSE [read |-> read, status_code |-> 500,
          content |-> [ok |-> FALSE, error |-> read.value]]

\* health_jobs of routes/health.py: {"ok": ..., **status}, or the answer of
\* its except branch
health_jobs(read) ==
    IF read.kind = "returned"
    THEN [read |-> read, status_code |-> 200,
          content |-> read.value @@ [ok |-> running_of(read.value)]]
    ELSE [read |-> read, status_code |-> 500,
          content |-> [ok |-> FALSE, error |-> read.value]]

\* GET /health/jobs: the route is synchronous and is served from a thread of
\* its own; reading the status returns it or raises
HealthJobs(raises) ==
    /\ answer' = health_jobs(IF raises THEN Raised(<<"boom">>)
                               ELSE Returned(get_job_worker_status))
    /\ UNCHANGED <<storeVars, now, proc, tracing, rights_entities, process_requests, work_tickets, registry, registry_calls,
                   early_returns, health, attempts, claim_call, worker, tasks, _job_worker,
                   calls, requests, completions, warnings>>

(***************************************************************************)
(* The job routes.  Each statement is its own transaction; a request is    *)
(* recorded between its SELECT and its write.                              *)
(***************************************************************************)
NoRequest == [route |-> "none", job |-> 0, status |-> "absent"]
\* a request on the process route between its statements: the statement it
\* is at, its entity, and the status code it has answered with
NoProcessRequest == [pc |-> "none", entity_id |-> 0, force |-> FALSE, status_code |-> 0, job |-> 0]
\* a rights_entities row
Entity(embedding_status) == [embedding_status |-> embedding_status]

\* POST /jobs
create_job(job_type, priority) ==
    /\ FreeIds(jobs) # {}
    /\ jobs' = Insert(jobs, NewJob(job_type, priority, Payload("route", 0, Null), now))
    /\ UNCHANGED <<schedules, anchors, now, proc, tracing, rights_entities, process_requests, answer, work_tickets, registry, registry_calls, early_returns, health, attempts, claim_call, worker, tasks, _job_worker, calls,
                   requests, completions, warnings>>

\* the embedding_generation jobs of an entity that are queued or processing
ActiveEmbeddingJobs(J, entity_id) ==
    {id \in JobIds : /\ Exists(J, id)
                     /\ J[id].rights_entity_id = entity_id
                     /\ J[id].job_type = "embedding_generation"
                     /\ J[id].status \in {"queued", "processing"}}

\* POST /entities/{entity_id}/process: the SELECT of the entity and the
\* check of its embedding_status
trigger_entity_processing_entity(r, entity_id, force) ==
    /\ process_requests[r].pc \in {"none", "done"}
    /\ LET request == [NoProcessRequest EXCEPT !.entity_id = entity_id, !.force = force]
       IN  process_requests' = [process_requests EXCEPT ![r] =
              IF entity_id \notin EntityIds
              THEN [request EXCEPT !.pc = "done", !.status_code = 404]
              ELSE IF rights_entities[entity_id].embedding_status = "processing" /\ ~force
              THEN [request EXCEPT !.pc = "done", !.status_code = 409]
              ELSE [request EXCEPT !.pc = "existing"]]
    /\ UNCHANGED <<jobs, rights_entities, schedules, anchors, now, proc, tracing, answer, work_tickets, registry,
                   registry_calls, early_returns, health, attempts, claim_call, worker, tasks,
                   _job_worker, calls, requests, completions, warnings>>

\* the SELECT of a queued or processing embedding job of the entity
trigger_entity_processing_existing(r) ==
    /\ process_requests[r].pc = "existing"
    /\ LET existing == ActiveEmbeddingJobs(jobs, process_requests[r].entity_id) # {}
       IN  process_requests' = [process_requests EXCEPT ![r] =
              IF existing /\ ~process_requests[r].force
              THEN [@ EXCEPT !.pc = "done", !.status_code = 409]
              ELSE [@ EXCEPT !.pc = "insert"]]
    /\ UNCHANGED <<jobs, rights_entities, schedules, anchors, now, proc, tracing, answer, work_tickets, registry,
                   registry_calls, early_returns, health, attempts, claim_call, worker, tasks,
                   _job_worker, calls, requests, completions, warnings>>

\* the INSERT of a queued embedding_generation job of priority 0
trigger_entity_processing_insert(r) ==
    /\ process_requests[r].pc = "insert"
    /\ FreeIds(jobs) # {}
    /\ LET entity_id == process_requests[r].entity_id
       IN  jobs' = Insert(jobs, EntityJob("embedding_generation", 0,
                                          Payload("route", 0, Null), now,
                                          entity_id, 0, None))
    /\ process_requests' = [process_requests EXCEPT ![r].pc = "update", ![r].job = NextId(jobs)]
    /\ UNCHANGED <<rights_entities, schedules, anchors, now, proc, tracing, answer, work_tickets, registry,
                   registry_calls, early_returns, health, attempts, claim_call, worker, tasks,
                   _job_worker, calls, requests, completions, warnings>>

\* "UPDATE rights_entities SET embedding_status = 'processing'", and the answer
trigger_entity_processing_update(r) ==
    /\ process_requests[r].pc = "update"
    /\ rights_entities' = [rights_entities EXCEPT ![process_requests[r].entity_id] =
                              Entity("processing")]
    /\ process_requests' = [process_requests EXCEPT ![r].pc = "done", ![r].status_code = 200]
    /\ UNCHANGED <<jobs, schedules, anchors, now, proc, tracing, answer, work_tickets, registry,
                   registry_calls, early_returns, health, attempts, claim_call, worker, tasks,
                   _job_worker, calls, requests, completions, warnings>>

\* POST /jobs/{job_id}/cancel: the SELECT and the status check
cancel_job_read(r, job_id) ==
    /\ requests[r].route = "none"
    /\ Exists(jobs, job_id)
    /\ jobs[job_id].status \in {"queued", "processing"}
    /\ requests' = [requests EXCEPT ![r] =
          [route |-> "cancel", job |-> job_id, status |-> jobs[job_id].status]]
    /\ UNCHANGED <<storeVars, now, proc, tracing, rights_entities, process_requests, answer, work_tickets, registry, registry_calls, early_returns, health, attempts, claim_call, worker, tasks, _job_worker, calls,
                   completions, warnings>>

\* POST /jobs/{job_id}/cancel: "UPDATE ... SET status = 'cancelled' WHERE id = :job_id"
cancel_job_write(r) ==
    /\ requests[r].route = "cancel"
    /\ jobs' = [jobs EXCEPT ![requests[r].job].status = "cancelled"]
    /\ LET entity_id == jobs[requests[r].job].rights_entity_id
           other_jobs == {id \in JobIds \ {requests[r].job} :
                            /\ Exists(jobs, id)
                            /\ jobs[id].rights_entity_id = entity_id
                            /\ jobs[id].status \in {"queued", "processing"}}
       IN  rights_entities' =
              IF entity_id \in EntityIds /\ other_jobs = {}
              THEN [rights_entities EXCEPT ![entity_id] = Entity("pending")]
              ELSE rights_entities
    /\ requests' = [requests EXCEPT ![r] = NoRequest]
    /\ UNCHANGED <<schedules, anchors, now, proc, tracing, process_requests, answer, work_tickets, registry, registry_calls, early_returns, health, attempts, claim_call, worker, tasks, _job_worker, calls,
                   completions, warnings>>

\* the retry route without its status check
retry_job_read_AnyStatus(r, job_id) ==
    /\ requests[r].route = "none"
    /\ Exists(jobs, job_id)
    /\ requests' = [requests EXCEPT ![r] =
          [route |-> "retry", job |-> job_id, status |-> jobs[job_id].status,
           row |-> jobs[job_id]]]
    /\ UNCHANGED <<storeVars, now, proc, tracing, rights_entities, process_requests, answer, work_tickets, registry, registry_calls, early_returns,
                   health, attempts, claim_call, worker, tasks, _job_worker, calls,
                   completions, warnings>>

\* POST /jobs/{job_id}/retry: the SELECT and the status check
retry_job_read(r, job_id) ==
    /\ requests[r].route = "none"
    /\ Exists(jobs, job_id)
    /\ jobs[job_id].status = "failed"
    /\ requests' = [requests EXCEPT ![r] =
          [route |-> "retry", job |-> job_id, status |-> jobs[job_id].status,
           row |-> jobs[job_id]]]
    /\ UNCHANGED <<storeVars, now, proc, tracing, rights_entities, process_requests, answer, work_tickets, registry, registry_calls, early_returns, health, attempts, claim_call, worker, tasks, _job_worker, calls,
                   completions, warnings>>

\* POST /jobs/{job_id}/retry: the INSERT of a new queued row of priority 1
retry_job_insert(r) ==
    /\ requests[r].route = "retry"
    /\ FreeIds(jobs) # {}
    /\ LET row == requests[r].row
       IN  /\ jobs' = Insert(jobs, EntityJob(row.job_type, 1,
                                             Payload("retry", requests[r].job, Null), now,
                                             row.rights_entity_id, row.asset_id, row.config))
           /\ rights_entities' =
                 IF row.job_type = "embedding_generation" /\ row.rights_entity_id \in EntityIds
                 THEN [rights_entities EXCEPT ![row.rights_entity_id] = Entity("processing")]
                 ELSE rights_entities
    /\ requests' = [requests EXCEPT ![r] = NoRequest]
    /\ UNCHANGED <<schedules, anchors, now, proc, tracing, process_requests, answer, work_tickets, registry, registry_calls, early_returns, health, attempts, claim_call, worker, tasks, _job_worker, calls,
                   completions, warnings>>

\* any caller of SupabaseJobExecutor.complete_job (a second worker, a retry path)
DirectCompleteJob(job_id, result) ==
    /\ Exists(jobs, job_id)
    /\ Len(completions[job_id]) < MaxCompleteCalls
    /\ LET r == complete_job(jobs, job_id, result, now, "ok")
       IN  /\ jobs' = r.jobs
           /\ completions' = [completions EXCEPT ![job_id] =
                 Append(@, [result |-> result, returned |-> r.data,
                            before |-> jobs[job_id].status])]
    /\ UNCHANGED <<schedules, anchors, now, proc, tracing, rights_entities, process_requests, answer, work_tickets, registry, registry_calls, early_returns, health, attempts, claim_call, worker, tasks, _job_worker, calls,
                   requests, warnings>>

\* a caller of SupabaseJobExecutor.complete_job with the id of no job
CompleteUnknownJob(job_id, result) ==
    /\ ~Exists(jobs, job_id)
    /\ Len(completions[job_id]) < MaxCompleteCalls
    /\ LET r == complete_job(jobs, job_id, result, now, "ok")
       IN  /\ jobs' = r.jobs
           /\ completions' = [completions EXCEPT ![job_id] =
                 Append(@, [result |-> result, returned |-> r.data,
                            before |-> jobs[job_id].status])]
    /\ UNCHANGED <<schedules, anchors, now, proc, tracing, rights_entities, process_requests, answer, work_tickets, registry, registry_calls, early_returns, health, attempts, claim_call, worker, tasks, _job_worker, calls,
                   requests, warnings>>

\* any caller of SupabaseJobExecutor.claim_jobs, once
DirectClaimJobs(worker_id, job_types, limit) ==
    /\ claim_call = NoClaimCall
    /\ LET r == claim_jobs(jobs, worker_id, job_types, limit, now, "ok")
       IN  /\ jobs' = r.jobs
           /\ attempts' = Attempted(jobs, r.jobs)
           /\ claim_call' = [fn |-> "claim_jobs", worker_id |-> worker_id,
                             job_types |-> job_types, limit |-> limit, t |-> now,
                             before |-> jobs, data |-> r.data]
    /\ UNCHANGED <<schedules, anchors, now, proc, tracing, rights_entities, process_requests, answer, work_tickets, registry, registry_calls, early_returns, health, worker, tasks, _job_worker, calls,
                   requests, completions, warnings>>

(***************************************************************************)
(* Calls on the handler registry.                                          *)
(***************************************************************************)
\* the types and handler functions of the registrations made after the import
RegTypes == {"scheduled_work", "stale_refresh", "video_transcode"}
Funcs == {"h1", "h2"}

\* "@JobHandlerRegistry.register(job_type)" applied to func
Register(job_type, func) ==
    /\ Len(registry_calls) < MaxRegistryCalls
    /\ registry' = register(registry, job_type, func)
    /\ registry_calls' = Append(registry_calls,
          [fn |-> "register", job_type |-> job_type, func |-> func])
    /\ UNCHANGED <<storeVars, now, proc, tracing, rights_entities, process_requests, answer, work_tickets, early_returns, health, attempts, claim_call, worker,
                   tasks, _job_worker, calls, requests, completions, warnings>>

\* JobHandlerRegistry.handle looks up the handler of a job of the type and
\* calls it, or raises its ValueError when there is none
Handle(job_type) ==
    /\ Len(registry_calls) < MaxRegistryCalls
    /\ registry_calls' = Append(registry_calls,
          [fn |-> "handle", job_type |-> job_type, func |-> get(registry, job_type)])
    /\ UNCHANGED <<storeVars, now, proc, tracing, rights_entities, process_requests, answer, work_tickets, registry, early_returns, health, attempts, claim_call,
                   worker, tasks, _job_worker, calls, requests, completions, warnings>>

(***************************************************************************)
(* Initial states and specifications.                                      *)
(***************************************************************************)
InitStoreRows ==
    /\ jobs = [id \in JobIds |-> NoJob]
    /\ schedules = [s \in ScheduleIds |-> Schedule(StartTime)]
    /\ anchors = [a \in AnchorIds |-> [updated_at |-> 0, ttl |-> StartTime - 1]]
    /\ now = StartTime

InitRest ==
    /\ tasks = [t \in TaskIds |-> NoTaskRec]
    /\ _job_worker = NoWorker
    /\ calls = [c \in CallIds |-> NoCall]
    /\ requests = [r \in RequestIds |-> NoRequest]
    /\ completions = [id \in JobIds |-> <<>>]
    /\ warnings = [w \in Workers |-> 0]
    /\ tracing = FALSE
    /\ rights_entities = [e \in EntityIds |-> Entity("pending")]
    /\ process_requests = [r \in ProcessRequestIds |-> NoProcessRequest]
    /\ answer = NoResponse
    /\ work_tickets = <<>>
    /\ registry = Imported
    /\ registry_calls = <<>>
    /\ early_returns = [w \in Workers |-> 0]
    /\ health = NoHealth
    /\ claim_call = NoClaimCall
    /\ attempts = [id \in JobIds |-> 0]

\* every worker in a process of its own; each process has called start() on
\* its worker, and the loop task of worker w is task w
InitStore ==
    /\ registry = Imported
    /\ InitStoreRows
    /\ _job_worker = NoWorker
    /\ calls = [c \in CallIds |-> NoCall]
    /\ requests = [r \in RequestIds |-> NoRequest]
    /\ completions = [id \in JobIds |-> <<>>]
    /\ warnings = [w \in Workers |-> 0]
    /\ tracing = FALSE
    /\ rights_entities = [e \in EntityIds |-> Entity("pending")]
    /\ process_requests = [r \in ProcessRequestIds |-> NoProcessRequest]
    /\ answer = NoResponse
    /\ work_tickets = <<>>
    /\ registry_calls = <<>>
    /\ early_returns = [w \in Workers |-> 0]
    /\ health = NoHealth
    /\ claim_call = NoClaimCall
    /\ attempts = [id \in JobIds |-> 0]
    /\ proc = [w \in Workers |-> w]
    /\ worker = [w \in Workers |-> [JobWorker EXCEPT !.running = TRUE, !._task = w]]
    /\ tasks = [t \in TaskIds |-> IF t \in Workers THEN create_task(t) ELSE NoTaskRec]

\* one process with one constructed worker
InitWorker ==
    /\ InitStoreRows
    /\ InitRest
    /\ proc = [w \in Workers |-> MainProcess]
    /\ worker = [w \in Workers |-> IF w = 1 THEN JobWorker ELSE Unconstructed]

\* one process, no worker yet
InitSupervisor ==
    /\ InitStoreRows
    /\ InitRest
    /\ proc = [w \in Workers |-> MainProcess]
    /\ worker = [w \in Workers |-> Unconstructed]

\* a job type without handler, and a job without job_type
DispatchTypes == {"scheduled_work", "video_transcode", None}

ClaimedRow(job_type, retry_count) ==
    [NewJob(job_type, 0, Payload("route", 0, Null), StartTime) EXCEPT
        !.status = "processing", !.worker_id = 1, !.started_at = StartTime,
        !.retry_count = retry_count]

\* one running worker whose executor has just returned a batch to
\* _process_jobs: any rows, also of types the worker has no handler for
InitDispatch ==
    /\ registry = Imported
    /\ \E n \in JobIds :
       \E types \in [1..n -> DispatchTypes], retries \in [1..n -> 0..MaxAttempts] :
          /\ jobs = [id \in JobIds |->
                        IF id <= n THEN ClaimedRow(types[id], retries[id]) ELSE NoJob]
          /\ tasks = [t \in TaskIds |->
                        IF t = 1
                        THEN [create_task(1) EXCEPT !.pc = "dispatch",
                                 !.current_time = StartTime,
                                 !.batch = [k \in 1..n |-> k],
                                 !.claimed = [k \in 1..n |-> k]]
                        ELSE NoTaskRec]
    /\ schedules = [s \in ScheduleIds |-> Schedule(StartTime + SchedulePeriod)]
    /\ anchors = [a \in AnchorIds |-> [updated_at |-> 0, ttl |-> StartTime - 1]]
    /\ now = StartTime
    /\ proc = [w \in Workers |-> MainProcess]
    /\ worker = [w \in Workers |->
                    IF w = 1
                    THEN [JobWorker EXCEPT !.running = TRUE, !._task = 1,
                                           !._last_schedule_check = StartTime,
                                           !._last_stale_check = StartTime]
                    ELSE Unconstructed]
    /\ _job_worker = NoWorker
    /\ calls = [c \in CallIds |-> NoCall]
    /\ requests = [r \in RequestIds |-> NoRequest]
    /\ completions = [id \in JobIds |-> <<>>]
    /\ warnings = [w \in Workers |-> 0]
    /\ tracing = TRUE
    /\ rights_entities = [e \in EntityIds |-> Entity("pending")]
    /\ process_requests = [r \in ProcessRequestIds |-> NoProcessRequest]
    /\ answer = NoResponse
    /\ work_tickets = <<>>
    /\ registry_calls = <<>>
    /\ early_returns = [w \in Workers |-> 0]
    /\ health = NoHealth
    /\ claim_call = NoClaimCall
    /\ attempts = [id \in JobIds |-> IF Exists(jobs, id) THEN jobs[id].retry_count + 1 ELSE 0]

Iterate(faults) ==
    \E t \in TaskIds :
       \/ Wake(t)
       \/ \E fault \in faults : CheckSchedules(t, fault)
       \/ \E fault \in faults : CheckStaleAnchors(t, fault)
       \/ \E fault \in faults : ProcessJobs(t, fault)

Batch(faults) ==
    \E t \in TaskIds :
       \/ Dispatch(t)
       \/ HandlerResume(t)
       \/ \E fault \in faults : CompleteJob(t, fault)
       \/ \E fault \in faults : FailJob(t, fault)

Loop(faults) == Iterate(faults) \/ Batch(faults)

Priorities == {0, 1}

Routes ==
    \/ \E job_type \in VALID_JOB_TYPES, priority \in Priorities :
          create_job(job_type, priority)
    \/ \E r \in RequestIds, job_id \in JobIds : cancel_job_read(r, job_id)
    \/ \E r \in RequestIds : cancel_job_write(r)
    \/ \E r \in RequestIds, job_id \in JobIds : retry_job_read(r, job_id)
    \/ \E r \in RequestIds : retry_job_insert(r)

\* several worker processes on one Store
NextStore ==
    \/ Loop({"ok"})
    \/ Tick

SpecStore == InitStore /\ [][NextStore]_vars

\* a worker process and the job routes on one Store
NextRoutes ==
    \/ \E w \in Workers : StartOnce(w)
    \/ Loop({"ok"})
    \/ Routes
    \/ Tick

SpecRoutes == InitWorker /\ [][NextRoutes]_vars

\* a worker process and other callers of the executor on one Store
NextExecutor ==
    \/ \E w \in Workers : StartOnce(w)
    \/ Loop({"ok"})
    \/ \E job_id \in JobIds, result \in Results : DirectCompleteJob(job_id, result)
    \/ Tick

SpecExecutor == InitWorker /\ [][NextExecutor]_vars

\* one worker, started and stopped
NextWorkerLoop ==
    \/ \E w \in Workers : Start(w)
    \/ \E w \in Workers : Stop(w)
    \/ \E c \in CallIds : StopReturn(c)
    \/ Loop({"ok"})
    \/ \E t \in TaskIds : Cancelled(t)
    \/ Tick

Spec == InitWorker /\ [][NextWorkerLoop]_vars

\* the event loop runs every task that is ready: a loop task that can take a
\* step takes it, a cancelled task gets its CancelledError, and an await on a
\* finished task returns
EventLoop ==
    /\ WF_vars(Loop({"ok"}))
    /\ WF_vars(\E t \in TaskIds : Cancelled(t))
    /\ WF_vars(\E c \in CallIds : StopReturn(c))

\* one worker, stopped and started again within one poll interval: no time
\* has to pass for a stop() to return
NextStop ==
    \/ \E w \in Workers : StartOnce(w)
    \/ \E w \in Workers : Stop(w)
    \/ \E c \in CallIds : StopReturn(c)
    \/ Loop({"ok"})
    \/ \E t \in TaskIds : Cancelled(t)

SpecStop == InitWorker /\ [][NextStop]_vars /\ EventLoop

\* a worker that is never stopped, on a Store whose calls may fail
NextUnstopped ==
    \/ \E w \in Workers : StartOnce(w)
    \/ Loop(StoreFaults)
    \/ Tick

SpecUnstopped == InitWorker /\ [][NextUnstopped]_vars /\ WF_vars(Loop(StoreFaults))

\* a queued job of any handled type and max_attempts setting is in the
\* table when the worker is started; the due schedule adds a job at the
\* first iteration, and the two make one batch
RetryRows ==
    {[NewJob(job_type, 3, Payload("route", 0, Null), StartTime)
        EXCEPT !.max_attempts = m] :
        job_type \in get_all_job_types, m \in 0..MaxAttempts}

InitRetry ==
    /\ registry = Imported
    /\ \E row \in RetryRows :
          jobs = [id \in JobIds |-> IF id = 1 THEN row ELSE NoJob]
    /\ schedules = [s \in ScheduleIds |-> Schedule(StartTime)]
    /\ anchors = [a \in AnchorIds |-> [updated_at |-> StartTime, ttl |-> StartTime]]
    /\ now = StartTime
    /\ proc = [w \in Workers |-> MainProcess]
    /\ worker = [w \in Workers |->
                    IF w = 1 THEN [JobWorker EXCEPT !.running = TRUE, !._task = 1]
                    ELSE Unconstructed]
    /\ tasks = [t \in TaskIds |-> IF t = 1 THEN create_task(1) ELSE NoTaskRec]
    /\ _job_worker = NoWorker
    /\ calls = [c \in CallIds |-> NoCall]
    /\ requests = [r \in RequestIds |-> NoRequest]
    /\ completions = [id \in JobIds |-> <<>>]
    /\ warnings = [w \in Workers |-> 0]
    /\ tracing = FALSE
    /\ rights_entities = [e \in EntityIds |-> Entity("pending")]
    /\ process_requests = [r \in ProcessRequestIds |-> NoProcessRequest]
    /\ answer = NoResponse
    /\ work_tickets = <<>>
    /\ registry_calls = <<>>
    /\ early_returns = [w \in Workers |-> 0]
    /\ health = NoHealth
    /\ claim_call = NoClaimCall
    /\ attempts = [id \in JobIds |-> 0]

\* asyncio.sleep(poll_interval) returns when it is due: no further poll
\* interval passes before a loop task whose sleep is over has run
Timely == \A t \in TaskIds : tasks[t].pc = "sleep" => now < tasks[t].wake_at

TimelyTick == Timely /\ Tick

\* a worker that keeps running on a Store that answers
NextRetry ==
    \/ Loop({"ok"})
    \/ TimelyTick

SpecRetry ==
    /\ InitRetry
    /\ [][NextRetry]_vars
    /\ WF_vars(Loop({"ok"}))
    /\ WF_vars(TimelyTick)

\* a started worker on a Store whose calls may fail; the calls of each
\* iteration are recorded
InitFaults ==
    /\ registry = Imported
    /\ InitStoreRows
    /\ proc = [w \in Workers |-> MainProcess]
    /\ worker = [w \in Workers |->
                    IF w = 1 THEN [JobWorker EXCEPT !.running = TRUE, !._task = 1]
                    ELSE Unconstructed]
    /\ tasks = [t \in TaskIds |-> IF t = 1 THEN create_task(1) ELSE NoTaskRec]
    /\ _job_worker = NoWorker
    /\ calls = [c \in CallIds |-> NoCall]
    /\ requests = [r \in RequestIds |-> NoRequest]
    /\ completions = [id \in JobIds |-> <<>>]
    /\ warnings = [w \in Workers |-> 0]
    /\ tracing = TRUE
    /\ rights_entities = [e \in EntityIds |-> Entity("pending")]
    /\ process_requests = [r \in ProcessRequestIds |-> NoProcessRequest]
    /\ answer = NoResponse
    /\ work_tickets = <<>>
    /\ registry_calls = <<>>
    /\ early_returns = [w \in Workers |-> 0]
    /\ health = NoHealth
    /\ claim_call = NoClaimCall
    /\ attempts = [id \in JobIds |-> 0]

NextFaults ==
    \/ Loop(StoreFaults)
    \/ Tick

SpecFaults == InitFaults /\ [][NextFaults]_vars

\* a worker started when the clock shows PacingStart, early enough for each
\* check to come round again before MaxTime
PacingStart == stale_check_interval

InitPacing ==
    /\ registry = Imported
    /\ jobs = [id \in JobIds |-> NoJob]
    /\ schedules = [s \in ScheduleIds |-> Schedule(PacingStart)]
    /\ anchors = [a \in AnchorIds |-> [updated_at |-> 0, ttl |-> PacingStart - 1]]
    /\ now = PacingStart
    /\ proc = [w \in Workers |-> MainProcess]
    /\ worker = [w \in Workers |->
                    IF w = 1 THEN [JobWorker EXCEPT !.running = TRUE, !._task = 1]
                    ELSE Unconstructed]
    /\ tasks = [t \in TaskIds |-> IF t = 1 THEN create_task(1) ELSE NoTaskRec]
    /\ _job_worker = NoWorker
    /\ calls = [c \in CallIds |-> NoCall]
    /\ requests = [r \in RequestIds |-> NoRequest]
    /\ completions = [id \in JobIds |-> <<>>]
    /\ warnings = [w \in Workers |-> 0]
    /\ tracing = TRUE
    /\ rights_entities = [e \in EntityIds |-> Entity("pending")]
    /\ process_requests = [r \in ProcessRequestIds |-> NoProcessRequest]
    /\ answer = NoResponse
    /\ work_tickets = <<>>
    /\ registry_calls = <<>>
    /\ early_returns = [w \in Workers |-> 0]
    /\ health = NoHealth
    /\ claim_call = NoClaimCall
    /\ attempts = [id \in JobIds |-> 0]

SpecPacing == InitPacing /\ [][NextFaults]_vars

\* a started worker, and the job routes creating jobs of the types they accept
InitTypes ==
    /\ registry = Imported
    /\ InitStoreRows
    /\ proc = [w \in Workers |-> MainProcess]
    /\ worker = [w \in Workers |->
                    IF w = 1 THEN [JobWorker EXCEPT !.running = TRUE, !._task = 1]
                    ELSE Unconstructed]
    /\ tasks = [t \in TaskIds |-> IF t = 1 THEN create_task(1) ELSE NoTaskRec]
    /\ _job_worker = NoWorker
    /\ calls = [c \in CallIds |-> NoCall]
    /\ requests = [r \in RequestIds |-> NoRequest]
    /\ completions = [id \in JobIds |-> <<>>]
    /\ warnings = [w \in Workers |-> 0]
    /\ tracing = FALSE
    /\ rights_entities = [e \in EntityIds |-> Entity("pending")]
    /\ process_requests = [r \in ProcessRequestIds |-> NoProcessRequest]
    /\ answer = NoResponse
    /\ work_tickets = <<>>
    /\ registry_calls = <<>>
    /\ early_returns = [w \in Workers |-> 0]
    /\ health = NoHealth
    /\ claim_call = NoClaimCall
    /\ attempts = [id \in JobIds |-> 0]

NextTypes ==
    \/ Loop({"ok"})
    \/ \E job_type \in VALID_JOB_TYPES, priority \in Priorities :
          create_job(job_type, priority)
    \/ Tick

SpecTypes == InitTypes /\ [][NextTypes]_vars

\* str(e) of a handler's exception: any text of a length around ErrorLimit
ErrorChars == <<"a", "b", "c">>
ErrorText(n, k) == [i \in 1..n |-> ErrorChars[((i + k) % Len(ErrorChars)) + 1]]
ErrorLengths == 0..3 \cup (ErrorLimit - 2)..(ErrorLimit + 3)
ErrorTexts == {ErrorText(n, k) : n \in ErrorLengths, k \in 1..Len(ErrorChars)}

\* _process_single_job has caught the exception of a handler and is about
\* to call fail_job
InitTruncate ==
    /\ registry = Imported
    /\ \E retry_count \in 0..MaxAttempts, error \in ErrorTexts :
          /\ jobs = [id \in JobIds |->
                        IF id = 1 THEN ClaimedRow("scheduled_work", retry_count) ELSE NoJob]
          /\ tasks = [t \in TaskIds |->
                        IF t = 1
                        THEN [create_task(1) EXCEPT !.pc = "fail",
                                 !.current_time = StartTime,
                                 !.batch = <<1>>,
                                 !.claimed = <<1>>,
                                 !.outcome = Raised(error),
                                 !.trace = <<Entry(1, Raised(error), FALSE)>>]
                        ELSE NoTaskRec]
          /\ attempts = [id \in JobIds |-> IF id = 1 THEN retry_count + 1 ELSE 0]
    /\ schedules = [s \in ScheduleIds |-> Schedule(StartTime + SchedulePeriod)]
    /\ anchors = [a \in AnchorIds |-> [updated_at |-> 0, ttl |-> StartTime - 1]]
    /\ now = StartTime
    /\ proc = [w \in Workers |-> MainProcess]
    /\ worker = [w \in Workers |->
                    IF w = 1
                    THEN [JobWorker EXCEPT !.running = TRUE, !._task = 1,
                                           !._last_schedule_check = StartTime,
                                           !._last_stale_check = StartTime]
                    ELSE Unconstructed]
    /\ _job_worker = NoWorker
    /\ calls = [c \in CallIds |-> NoCall]
    /\ requests = [r \in RequestIds |-> NoRequest]
    /\ completions = [id \in JobIds |-> <<>>]
    /\ warnings = [w \in Workers |-> 0]
    /\ tracing = TRUE
    /\ rights_entities = [e \in EntityIds |-> Entity("pending")]
    /\ process_requests = [r \in ProcessRequestIds |-> NoProcessRequest]
    /\ answer = NoResponse
    /\ work_tickets = <<>>
    /\ registry_calls = <<>>
    /\ early_returns = [w \in Workers |-> 0]
    /\ health = NoHealth
    /\ claim_call = NoClaimCall

NextTruncate == \E t \in TaskIds, fault \in StoreFaults : FailJob(t, fault)

SpecTruncate == InitTruncate /\ [][NextTruncate]_vars

\* the processing of one batch, with the cancel route at work on the same
\* jobs and one other caller of complete_job
NoDirectCall == \A id \in JobIds : completions[id] = <<>>

NextComplete ==
    \/ Batch({"ok"})
    \/ \E r \in RequestIds, job_id \in JobIds : cancel_job_read(r, job_id)
    \/ \E r \in RequestIds : cancel_job_write(r)
    \/ /\ NoDirectCall
       /\ \E job_id \in JobIds, result \in HandlerResults :
             DirectCompleteJob(job_id, result)
    \/ /\ NoDirectCall
       /\ \E job_id \in JobIds, result \in HandlerResults :
             CompleteUnknownJob(job_id, result)

\* claim_jobs has just returned a batch of at most job_batch_size rows
InitComplete ==
    /\ InitDispatch
    /\ Len(tasks[1].batch) <= job_batch_size

SpecComplete == InitComplete /\ [][NextComplete]_vars

\* two worker processes on one Store: claim_jobs has just returned a job to
\* worker 1, and worker 2 has been started
InitOrphan ==
    /\ registry = Imported
    /\ \E retry_count \in 0..MaxAttempts :
          /\ jobs = [id \in JobIds |->
                        IF id = 1 THEN ClaimedRow("scheduled_work", retry_count) ELSE NoJob]
          /\ attempts = [id \in JobIds |-> IF id = 1 THEN retry_count + 1 ELSE 0]
    /\ schedules = [s \in ScheduleIds |-> Schedule(StartTime + SchedulePeriod)]
    /\ anchors = [a \in AnchorIds |-> [updated_at |-> StartTime, ttl |-> StartTime]]
    /\ now = StartTime
    /\ proc = [w \in Workers |-> w]
    /\ worker = [w \in Workers |->
                    IF w = 1
                    THEN [JobWorker EXCEPT !.running = TRUE, !._task = 1,
                                           !._last_schedule_check = StartTime,
                                           !._last_stale_check = StartTime]
                    ELSE IF w = 2
                    THEN [JobWorker EXCEPT !.running = TRUE, !._task = 2]
                    ELSE Unconstructed]
    /\ tasks = [t \in TaskIds |->
                   IF t = 1
                   THEN [create_task(1) EXCEPT !.pc = "dispatch",
                            !.current_time = StartTime, !.batch = <<1>>]
                   ELSE IF t = 2 THEN create_task(2)
                   ELSE NoTaskRec]
    /\ _job_worker = NoWorker
    /\ calls = [c \in CallIds |-> NoCall]
    /\ requests = [r \in RequestIds |-> NoRequest]
    /\ completions = [id \in JobIds |-> <<>>]
    /\ warnings = [w \in Workers |-> 0]
    /\ tracing = FALSE
    /\ rights_entities = [e \in EntityIds |-> Entity("pending")]
    /\ process_requests = [r \in ProcessRequestIds |-> NoProcessRequest]
    /\ answer = NoResponse
    /\ work_tickets = <<>>
    /\ registry_calls = <<>>
    /\ early_returns = [w \in Workers |-> 0]
    /\ health = NoHealth
    /\ claim_call = NoClaimCall

\* the workers are stopped at any point, and the cancel route is at work
NextOrphan ==
    \/ Loop({"ok"})
    \/ \E w \in Workers : Stop(w)
    \/ \E c \in CallIds : StopReturn(c)
    \/ \E t \in TaskIds : Cancelled(t)
    \/ \E r \in RequestIds, job_id \in JobIds : cancel_job_read(r, job_id)
    \/ \E r \in RequestIds : cancel_job_write(r)
    \/ Tick

SpecOrphan == InitOrphan /\ [][NextOrphan]_vars

\* the rows a job table is drawn from: queued rows of several priorities and
\* ages, of a second handled type and of a type without handler, and rows
\* that are not queued
ClaimPriorities == {1, 3, 5}
QueuedRow(job_type, priority, created_at) ==
    NewJob(job_type, priority, Payload("route", 0, Null), created_at)
ClaimRows ==
    {QueuedRow("scheduled_work", p, StartTime) : p \in ClaimPriorities}
    \cup {QueuedRow("scheduled_work", 3, StartTime - 1),
          QueuedRow("stale_refresh", 3, StartTime),
          QueuedRow("embedding_generation", 5, StartTime),
          [ClaimedRow("scheduled_work", 0) EXCEPT !.priority = 5, !.worker_id = MaxWorkers],
          [ClaimedRow("scheduled_work", 0) EXCEPT !.priority = 5, !.status = "completed",
                                                  !.result = "r1", !.completed_at = StartTime],
          NoJob}

\* any job table, no worker started
InitClaim ==
    /\ jobs \in [JobIds -> ClaimRows]
    /\ schedules = [s \in ScheduleIds |-> Schedule(StartTime + SchedulePeriod)]
    /\ anchors = [a \in AnchorIds |-> [updated_at |-> 0, ttl |-> StartTime - 1]]
    /\ now = StartTime
    /\ InitRest
    /\ proc = [w \in Workers |-> w]
    /\ worker = [w \in Workers |-> JobWorker]

ClaimTypes == {get_all_job_types, {"scheduled_work"}}
ClaimLimits == 1..MaxJobs

\* one claim_jobs call on any job table
NextClaim ==
    \E worker_id \in Workers, job_types \in ClaimTypes, limit \in ClaimLimits :
       DirectClaimJobs(worker_id, job_types, limit)

SpecClaim == InitClaim /\ [][NextClaim]_vars

\* the processing of one batch, with the worker stopped at any point
NextDispatch ==
    \/ Batch({"ok"})
    \/ \E w \in Workers : Stop(w)
    \/ \E c \in CallIds : StopReturn(c)
    \/ \E t \in TaskIds : Cancelled(t)

SpecDispatch == InitDispatch /\ [][NextDispatch]_vars

\* one worker started and stopped at will, also stopped while it is stopped
NextLifecycle ==
    \/ \E w \in Workers : StartOnce(w)
    \/ \E w \in Workers : Stop(w)
    \/ \E w \in Workers : StopNotRunning(w)
    \/ \E c \in CallIds : StopReturn(c)
    \/ Loop({"ok"})
    \/ \E t \in TaskIds : Cancelled(t)
    \/ Tick

SpecLifecycle == InitWorker /\ [][NextLifecycle]_vars

\* queued jobs of a handled type, at most one batch of them, and a worker
\* that has not been started; no schedule is due and no anchor stale
RestartRows ==
    {[QueuedRow("stale_refresh", 0, StartTime) EXCEPT !.max_attempts = m] :
        m \in 0..MaxAttempts}
InitRestart ==
    /\ \E n \in 0..job_batch_size :
          jobs \in [JobIds -> RestartRows \cup {NoJob}]
          /\ \A id \in JobIds : Exists(jobs, id) <=> id <= n
    /\ schedules = [s \in ScheduleIds |-> Schedule(StartTime + SchedulePeriod + MaxTicks)]
    /\ anchors = [a \in AnchorIds |-> [updated_at |-> StartTime + MaxTicks, ttl |-> StartTime]]
    /\ now = StartTime
    /\ InitRest
    /\ proc = [w \in Workers |-> MainProcess]
    /\ worker = [w \in Workers |-> IF w = 1 THEN JobWorker ELSE Unconstructed]

\* the worker stopped and started again on that queue, within one poll interval
SpecRestart == InitRestart /\ [][NextStop]_vars /\ EventLoop

\* a queued job of a type that job_handlers.py registers no handler for,
\* with or without a job of a type it does; no worker yet
LateTypes == {"video_transcode"}
InitLateType ==
    /\ registry = Imported
    /\ \E second \in {QueuedRow("stale_refresh", 0, StartTime), NoJob} :
          jobs = [id \in JobIds |->
                    IF id = 1 THEN QueuedRow("video_transcode", 0, StartTime)
                    ELSE IF id = 2 THEN second ELSE NoJob]
    /\ schedules = [s \in ScheduleIds |-> Schedule(StartTime + SchedulePeriod + MaxTicks)]
    /\ anchors = [a \in AnchorIds |-> [updated_at |-> StartTime + MaxTicks, ttl |-> StartTime]]
    /\ now = StartTime
    /\ InitRest
    /\ proc = [w \in Workers |-> MainProcess]
    /\ worker = [w \in Workers |-> Unconstructed]

\* handlers registered for that type while workers are constructed, started
\* and replaced
NextLateType ==
    \/ \E job_type \in LateTypes : Register(job_type, "h1")
    \/ start_job_worker
    \/ \E c \in CallIds : start_job_worker_resume(c)
    \/ Loop({"ok"})
    \/ \E t \in TaskIds : Cancelled(t)

SpecLateType == InitLateType /\ [][NextLateType]_vars

\* one process, no worker yet, and a Store without jobs, due schedules or
\* stale anchors
InitHealth ==
    /\ jobs = [id \in JobIds |-> NoJob]
    /\ schedules = [s \in ScheduleIds |-> Schedule(StartTime + SchedulePeriod + MaxTicks)]
    /\ anchors = [a \in AnchorIds |-> [updated_at |-> StartTime + MaxTicks, ttl |-> StartTime]]
    /\ now = StartTime
    /\ InitRest
    /\ proc = [w \in Workers |-> MainProcess]
    /\ worker = [w \in Workers |-> Unconstructed]

\* the module-level worker started and stopped within one poll interval,
\* and the health route called at any point
NextHealth ==
    \/ start_job_worker
    \/ \E c \in CallIds : start_job_worker_resume(c)
    \/ stop_job_worker
    \/ \E c \in CallIds : stop_job_worker_resume(c)
    \/ Iterate({"ok"})
    \/ \E t \in TaskIds : Cancelled(t)
    \/ \E raises \in BOOLEAN : HealthJobs(raises)

SpecHealth == InitHealth /\ [][NextHealth]_vars

\* concurrent requests on the process route, none of them forced, for an
\* entity or for none, and the cancel route
NextProcess ==
    \/ \E r \in ProcessRequestIds, entity_id \in EntityIds \cup {0} :
          trigger_entity_processing_entity(r, entity_id, FALSE)
    \/ \E r \in ProcessRequestIds : trigger_entity_processing_existing(r)
    \/ \E r \in ProcessRequestIds : trigger_entity_processing_insert(r)
    \/ \E r \in ProcessRequestIds : trigger_entity_processing_update(r)
    \/ \E r \in RequestIds, job_id \in JobIds : cancel_job_read(r, job_id)
    \/ \E r \in RequestIds : cancel_job_write(r)

SpecProcess == InitHealth /\ [][NextProcess]_vars

\* the rows the routes have inserted for an entity: jobs with and without
\* asset and config, of a type the worker handles and of one it does not
EntityRows ==
    {[EntityJob(job_type, 0, Payload("route", 0, Null), StartTime, entity, asset, config)
        EXCEPT !.max_attempts = m] :
        job_type \in {"scheduled_work", "embedding_generation"},
        entity \in EntityIds, asset \in {0, 1}, config \in {None, "c1"},
        m \in 0..MaxAttempts}

\* one running worker, and at most one job of an entity in the table
InitEntities ==
    /\ registry = Imported
    /\ \E row \in EntityRows \cup {NoJob} :
          jobs = [id \in JobIds |-> IF id = 1 THEN row ELSE NoJob]
    /\ schedules = [s \in ScheduleIds |-> Schedule(StartTime + SchedulePeriod + MaxTicks)]
    /\ anchors = [a \in AnchorIds |-> [updated_at |-> StartTime + MaxTicks, ttl |-> StartTime]]
    /\ now = StartTime
    /\ proc = [w \in Workers |-> MainProcess]
    /\ worker = [w \in Workers |->
                    IF w = 1 THEN [JobWorker EXCEPT !.running = TRUE, !._task = 1]
                    ELSE Unconstructed]
    /\ tasks = [t \in TaskIds |-> IF t = 1 THEN create_task(1) ELSE NoTaskRec]
    /\ _job_worker = NoWorker
    /\ calls = [c \in CallIds |-> NoCall]
    /\ requests = [r \in RequestIds |-> NoRequest]
    /\ completions = [id \in JobIds |-> <<>>]
    /\ warnings = [w \in Workers |-> 0]
    /\ tracing = FALSE
    /\ rights_entities = [e \in EntityIds |-> Entity("pending")]
    /\ process_requests = [r \in ProcessRequestIds |-> NoProcessRequest]
    /\ answer = NoResponse
    /\ work_tickets = <<>>
    /\ registry_calls = <<>>
    /\ early_returns = [w \in Workers |-> 0]
    /\ health = NoHealth
    /\ claim_call = NoClaimCall
    /\ attempts = [id \in JobIds |-> 0]

\* the retry route called at will while the worker processes the queue
NextRetryRoute ==
    \/ Loop({"ok"})
    \/ \E r \in RequestIds, job_id \in JobIds : retry_job_read(r, job_id)
    \/ \E r \in RequestIds : retry_job_insert(r)
    \/ Tick

SpecRetryRoute == InitEntities /\ [][NextRetryRoute]_vars

\* a running worker on a queue of scheduled_work jobs, one from a route and
\* one from the due schedule, with the handler's Store calls failing at will
InitTickets == InitRetry /\ jobs[1].job_type = "scheduled_work"

NextTickets ==
    \/ Iterate({"ok"})
    \/ \E t \in TaskIds, reply \in InsertReplies, fault \in StoreFaults :
          HandleScheduledWork(t, reply, fault)
    \/ \E t \in TaskIds : CompleteJob(t, "ok")
    \/ \E t \in TaskIds : FailJob(t, "ok")
    \/ Tick

SpecTickets == InitTickets /\ [][NextTickets]_vars

\* registrations and dispatches on the registry, in any order
NextRegistry ==
    \/ \E job_type \in RegTypes, func \in Funcs : Register(job_type, func)
    \/ \E job_type \in RegTypes : Handle(job_type)

SpecRegistry == InitWorker /\ [][NextRegistry]_vars

\* one worker started and stopped within one poll interval, and its status
\* read at any point
NextStatus ==
    \/ \E w \in Workers : StartOnce(w)
    \/ \E w \in Workers : Stop(w)
    \/ \E c \in CallIds : StopReturn(c)
    \/ Loop({"ok"})
    \/ \E t \in TaskIds : Cancelled(t)
    \/ \E w \in Workers : GetStatus(w)

SpecStatus == InitWorker /\ [][NextStatus]_vars

\* the module-level worker, started and stopped
NextSupervisor ==
    \/ start_job_worker
    \/ \E c \in CallIds : start_job_worker_resume(c)
    \/ stop_job_worker
    \/ \E c \in CallIds : stop_job_worker_resume(c)
    \/ Loop({"ok"})
    \/ \E t \in TaskIds : Cancelled(t)
    \/ Tick

SpecSupervisor == InitSupervisor /\ [][NextSupervisor]_vars

(***************************************************************************)
(* Properties.                                                             *)
(***************************************************************************)
\* a loop task holds a job from the return of claim_jobs until it has reported it
Holds(t, id) ==
    /\ tasks[t].pc \in {"dispatch", "await", "complete", "fail"}
    /\ id \in Range(tasks[t].batch)
Holders(id) == {t \in TaskIds : Holds(t, id)}

\* the loop of worker w is executing iterations in task t
Looping(w, t) == tasks[t].w = w /\ Live(t) /\ ~tasks[t].must_cancel
HasLoop(w) == \E t \in TaskIds : Looping(w, t)

\* C1: whatever the interleaving of the workers' claim_jobs calls, a job is
\* held by at most one loop task at a time, and a held job is processing
\* under the worker_id of its holder.
C1_MutualExclusion ==
    \A id \in JobIds :
       /\ Cardinality(Holders(id)) <= 1
       /\ \A t \in Holders(id) :
             jobs[id].status = "processing" /\ jobs[id].worker_id = tasks[t].w

\* two workers hold jobs of the same queue at the same time
C1_Witness ==
    \E t1, t2 \in TaskIds : \E id1, id2 \in JobIds :
       /\ tasks[t1].w # tasks[t2].w
       /\ Holds(t1, id1)
       /\ Holds(t2, id2)

\* C2: when no start_job_worker or stop_job_worker call is in flight, at
\* most one worker of the process has a running loop, and a worker with a
\* running loop is the one _job_worker refers to.
C2_SingleWorker ==
    (\A c \in CallIds : calls[c].fn = "none") =>
       /\ Cardinality({w \in Workers : HasLoop(w)}) <= 1
       /\ \A w \in Workers : HasLoop(w) => _job_worker = w

ScheduleJobs(s) ==
    {id \in JobIds : /\ Exists(jobs, id)
                     /\ jobs[id].payload.source = "schedule"
                     /\ jobs[id].payload.ref = s}

\* C3: however the workers' check_schedules calls interleave, every due
\* occurrence of a schedule has exactly one scheduled_work job, and the
\* schedule has been advanced once per job, past every occurrence served.
C3_NoDuplicateScheduleJobs ==
    \A s \in ScheduleIds :
       /\ \A a, b \in ScheduleJobs(s) :
             a # b => jobs[a].payload.due # jobs[b].payload.due
       /\ Cardinality(ScheduleJobs(s)) = schedules[s].advanced
       /\ \A a \in ScheduleJobs(s) :
             /\ jobs[a].job_type = "scheduled_work"
             /\ jobs[a].payload.due < schedules[s].next_run_at

\* two workers have both run check_schedules at the instant the schedule was due
C3_Witness ==
    /\ \A w \in Workers : worker[w]._last_schedule_check = StartTime
    /\ Cardinality(ScheduleJobs(1)) = 1
    /\ schedules[1].advanced = 1

\* C4: no step changes the status of a job row that is completed, failed or
\* cancelled.
C4_TerminalAbsorbing ==
    [][\A id \in JobIds :
          jobs[id].status \in TerminalStatuses => jobs'[id].status = jobs[id].status]_vars

\* C5: a complete_job call returns true exactly when the row is processing;
\* after a call that returned true every later call for the job returns
\* false, and the row stays completed with the result of that call.
C5_IdempotentCompletion ==
    \A id \in JobIds :
       \A i \in 1..Len(completions[id]) :
          LET call == completions[id][i]
          IN  /\ call.returned = (call.before = "processing")
              /\ call.returned =>
                    /\ \A k \in (i + 1)..Len(completions[id]) :
                          ~completions[id][k].returned
                    /\ jobs[id].status = "completed"
                    /\ jobs[id].result = call.result

\* complete_job(id, r1) returned true, then complete_job(id, r2) returned false
C5_Witness ==
    \E id \in JobIds :
       /\ Len(completions[id]) = 2
       /\ completions[id][1].returned
       /\ ~completions[id][2].returned
       /\ completions[id][1].result # completions[id][2].result
       /\ jobs[id].result = completions[id][1].result

TraceJobs(t) == [k \in 1..Len(tasks[t].trace) |-> tasks[t].trace[k].job]

\* the k-th job of the batch is between its dispatch and its report
InProgress(t, k) ==
    k = Len(tasks[t].trace) /\ tasks[t].pc \in {"await", "complete", "fail"}
\* the task ended while the handler of the k-th job was suspended
Interrupted(t, k) ==
    /\ k = Len(tasks[t].trace)
    /\ tasks[t].pc = "done"
    /\ tasks[t].trace[k].outcome.kind = "pending"
Finished(t, k) == ~InProgress(t, k) /\ ~Interrupted(t, k)

\* C6: a loop iteration that reaches its sleep has dispatched every job of
\* the claimed batch, in order, whichever handlers raised, and every job
\* whose handler returned is completed.
C6_BatchIsolation ==
    \A t \in TaskIds :
       tasks[t].pc = "sleep" =>
          /\ TraceJobs(t) = tasks[t].claimed
          /\ \A k \in 1..Len(tasks[t].trace) :
                tasks[t].trace[k].outcome.kind = "returned" =>
                   jobs[tasks[t].trace[k].job].status = "completed"

\* a batch of three whose second handler raised and whose other jobs completed
C6_Witness ==
    \E t \in TaskIds :
       /\ tasks[t].pc = "sleep"
       /\ Len(tasks[t].claimed) = 3
       /\ tasks[t].trace[2].outcome.kind = "raised"
       /\ jobs[tasks[t].claimed[1]].status = "completed"
       /\ jobs[tasks[t].claimed[3]].status = "completed"

\* C7: every dispatched job whose processing was not cut by a stop has
\* exactly one report: complete_job with the returned result, or fail_job
\* with the message of the exception; a job still in progress has none.
C7_OneReportPerJob ==
    \A t \in TaskIds :
       \A k \in 1..Len(tasks[t].trace) :
          LET entry == tasks[t].trace[k]
          IN  IF Finished(t, k)
              THEN /\ entry.outcome.kind \in {"returned", "raised"}
                   /\ entry.reports =
                         <<Report(IF entry.outcome.kind = "returned"
                                  THEN "complete_job" ELSE "fail_job",
                                  entry.outcome.value)>>
              ELSE entry.reports = <<>>

\* one batch with a job reported by complete_job and a job reported by fail_job
C7_Witness ==
    \E t \in TaskIds :
       \E i, k \in 1..Len(tasks[t].trace) :
          /\ Finished(t, i)
          /\ Finished(t, k)
          /\ tasks[t].trace[i].outcome.kind = "returned"
          /\ tasks[t].trace[k].outcome.kind = "raised"
          /\ jobs[tasks[t].trace[k].job].job_type \in _handlers

Unregistered(id) == jobs[id].job_type \notin _handlers

\* C8: for a job whose type has no handler (or that has no type) dispatch
\* raises the ValueError naming the type; the only report is fail_job with
\* that message; the row ends failed or re-queued with the message; and
\* the batch goes on: no job after it is skipped.
C8_UnknownTypeSafety ==
    \A t \in TaskIds :
       /\ tasks[t].pc \notin {"none", "done"} =>
             tasks[t].claimed = TraceJobs(t) \o
                (IF tasks[t].pc \in {"await", "complete", "fail"}
                 THEN Tail(tasks[t].batch) ELSE tasks[t].batch)
       /\ \A k \in 1..Len(tasks[t].trace) :
             LET entry == tasks[t].trace[k]
                 error == UnknownTypeError(jobs[entry.job].job_type)
             IN  Unregistered(entry.job) =>
                    /\ entry.outcome = Raised(error)
                    /\ jobs[entry.job].job_type \in Range(error)
                    /\ Finished(t, k) =>
                          /\ entry.reports = <<Report("fail_job", error)>>
                          /\ jobs[entry.job].status \in {"failed", "queued"}
                          /\ jobs[entry.job].error_message = error

\* a job without handler was failed and the job after it was completed
C8_Witness ==
    \E t \in TaskIds :
       \E k \in 1..Len(tasks[t].trace) :
          /\ Unregistered(tasks[t].trace[k].job)
          /\ jobs[tasks[t].trace[k].job].status = "failed"
          /\ k < Len(tasks[t].trace)
          /\ jobs[tasks[t].trace[k + 1].job].status = "completed"

\* C9: a loop task that has ended left no handler unfinished: every job it
\* dispatched has an outcome and a report.
C9_NoMidJobInterruption ==
    \A t \in TaskIds :
       tasks[t].pc = "done" =>
          \A k \in 1..Len(tasks[t].trace) :
             /\ tasks[t].trace[k].outcome.kind # "pending"
             /\ Len(tasks[t].trace[k].reports) = 1

LoopsOf(w) == {t \in TaskIds : Looping(w, t)}

C10_SingleLoop ==
    \A w \in Workers :
       /\ Cardinality(LoopsOf(w)) <= 1
       /\ \A t \in LoopsOf(w) : worker[w].running /\ worker[w]._task = t

C10_StartOnRunning ==
    \A w \in Workers :
       warnings'[w] # warnings[w] =>
          /\ worker[w].running
          /\ UNCHANGED <<storeVars, now, proc, tracing, rights_entities, process_requests, answer, work_tickets, registry, registry_calls, early_returns, health, attempts, claim_call, worker, tasks, _job_worker, calls,
                         requests, completions>>

\* C10: at any time at most one task of a worker is executing loop
\* iterations, and it is the task the running worker refers to; a start()
\* on a running worker only logs its warning.
C10_SingleLoopPerWorker == []C10_SingleLoop /\ [][C10_StartOnRunning]_vars

\* start() was called twice, and again while a stop() still awaits the old task
C10_Witness ==
    \E w \in Workers : \E c \in CallIds :
       /\ warnings[w] > 0
       /\ calls[c].fn = "stop"
       /\ calls[c].w = w
       /\ Live(calls[c].t)
       /\ worker[w].running
       /\ worker[w]._task # calls[c].t

\* the steps of an iteration are taken only by the task of a running worker
IterationPcs == {"schedules", "stale", "claim", "dispatch", "complete", "fail"}
C11_OnlyRunningIterates ==
    \A t \in TaskIds :
       tasks[t].pc \in IterationPcs =>
          worker[tasks[t].w].running /\ worker[tasks[t].w]._task = t

\* a task that the worker no longer runs is finished or about to be cancelled
C11_Stopped ==
    \A t \in TaskIds :
       (tasks[t].pc # "none" /\ ~(worker[tasks[t].w].running /\ worker[tasks[t].w]._task = t)) =>
          \/ tasks[t].pc = "done"
          \/ tasks[t].pc \in {"new", "sleep", "await"} /\ tasks[t].must_cancel

\* when stop() returns its task has exited, and the worker is not running
\* unless a start() has given it a new task meanwhile; a task that has exited
\* takes no further step
C11_Final ==
    /\ \A c \in CallIds :
          (calls[c].fn = "stop" /\ calls'[c].fn = "none") =>
             /\ tasks[calls[c].t].pc = "done"
             /\ worker[calls[c].w].running => worker[calls[c].w]._task # calls[c].t
    /\ \A t \in TaskIds : tasks[t].pc = "done" => tasks'[t] = tasks[t]

\* C11: a stop() that awaits the loop task eventually returns; when it
\* returns the task has exited and running is false (until a start()), and
\* only the task of a running worker ever makes a Store call.
C11_StopTerminates ==
    /\ \A c \in CallIds : (calls[c].fn = "stop") ~> (calls[c].fn = "none")
    /\ []C11_OnlyRunningIterates
    /\ []C11_Stopped
    /\ [][C11_Final]_vars

\* a stop() called while the loop slept has returned: the worker is stopped
\* and its task, which had run iterations, has exited
C11_Witness ==
    \E w \in Workers : \E t \in TaskIds :
       /\ worker[w].constructed
       /\ ~worker[w].running
       /\ worker[w]._task = t
       /\ tasks[t].pc = "done"
       /\ \A c \in CallIds : calls[c].fn = "none"
       /\ \E id \in JobIds : jobs[id].status = "completed"

\* the loop task of a running worker is alive
C12_Alive ==
    \A w \in Workers :
       worker[w].running =>
          /\ worker[w]._task # NoTask
          /\ tasks[worker[w]._task].w = w
          /\ Live(worker[w]._task)

\* the task is ready to begin an iteration
Ready(t) ==
    \/ tasks[t].pc = "new"
    \/ tasks[t].pc = "sleep" /\ now >= tasks[t].wake_at

\* C12: while stop() is not called the loop task of a started worker stays
\* alive, and every iteration it is ready for reaches its claim_jobs call,
\* whatever the handlers raise and whichever Store calls fail.
C12_LoopNeverDies ==
    /\ []C12_Alive
    /\ \A t \in TaskIds : Ready(t) ~> (tasks[t].pc = "claim")

\* the second iteration is at its claim_jobs call after a check_schedules
\* whose Store call failed and a job whose handler raised
C12_Witness ==
    \E t \in TaskIds :
       /\ tasks[t].pc = "claim"
       /\ tasks[t].current_time > StartTime
       /\ worker[tasks[t].w]._last_schedule_check = StartTime
       /\ schedules[1].advanced = 0
       /\ \E id \in JobIds : Exists(jobs, id) /\ jobs[id].error_message = <<"boom">>

Called == claim_call.fn = "claim_jobs"

\* C13: a claim_jobs call returns at most limit jobs, each once; every
\* returned job was queued with a type of job_types before the call and is
\* processing, with the caller's worker_id and started_at set, after it;
\* no other row is changed.
C13_ClaimContract ==
    Called =>
       LET c == claim_call
       IN  /\ Len(c.data) <= c.limit
           /\ \A i, k \in 1..Len(c.data) : i # k => c.data[i] # c.data[k]
           /\ \A id \in JobIds :
                 IF id \in Range(c.data)
                 THEN /\ c.before[id].status = "queued"
                      /\ c.before[id].job_type \in c.job_types
                      /\ jobs[id] = [c.before[id] EXCEPT !.status = "processing",
                                                         !.worker_id = c.worker_id,
                                                         !.started_at = c.t]
                      /\ jobs[id].started_at # Null
                 ELSE jobs[id] = c.before[id]

\* a call that found more jobs of its types than its limit, next to a queued
\* job of another type
C13_Witness ==
    /\ Called
    /\ claim_call.limit = 1
    /\ Len(claim_call.data) = 1
    /\ claim_call.job_types = {"scheduled_work"}
    /\ \A id \in JobIds : claim_call.before[id].status = "queued"
    /\ \E id \in JobIds : jobs[id].status = "queued" /\ jobs[id].job_type = "scheduled_work"
    /\ \E id \in JobIds : jobs[id].status = "queued" /\ jobs[id].job_type = "stale_refresh"

\* row a ranks before row b: higher priority, or the same priority and older
RanksBefore(J, a, b) ==
    \/ J[a].priority > J[b].priority
    \/ J[a].priority = J[b].priority /\ J[a].created_at < J[b].created_at

\* C14: the jobs of one claim_jobs call come back by priority descending and
\* created_at ascending; a job of the requested types left queued does not
\* rank before a returned one, and is left only when the limit is reached.
C14_PriorityOrder ==
    Called =>
       LET c == claim_call
           left == Eligible(c.before, c.job_types) \ Range(c.data)
       IN  /\ \A i, k \in 1..Len(c.data) :
                 i < k => ~RanksBefore(c.before, c.data[k], c.data[i])
           /\ \A e \in left : \A i \in 1..Len(c.data) :
                 ~RanksBefore(c.before, e, c.data[i])
           /\ left # {} => Len(c.data) = c.limit

\* jobs of priorities 1, 5, 3 queued at the same time, claimed with a limit
\* of three: they came back as 5, 3, 1
C14_Witness ==
    /\ Called
    /\ claim_call.limit = 3
    /\ \A id \in 1..3 : claim_call.before[id].status = "queued"
    /\ \A id \in 1..3 : claim_call.before[id].created_at = StartTime
    /\ [id \in 1..3 |-> claim_call.before[id].priority] = <<1, 5, 3>>
    /\ claim_call.data = <<2, 3, 1>>

C15_Bounded ==
    \A id \in JobIds : Exists(jobs, id) => jobs[id].retry_count <= jobs[id].max_attempts

\* the step in which task t reports the job at the head of its batch as failed
C15_FailStep ==
    \A t \in TaskIds :
       (tasks[t].pc = "fail" /\ tasks'[t].pc # "fail") =>
          LET id == Head(tasks[t].batch)
          IN  IF jobs[id].status # "processing"
              THEN jobs' = jobs
              ELSE /\ \A other \in JobIds \ {id} : jobs'[other] = jobs[other]
                   /\ IF jobs[id].retry_count < jobs[id].max_attempts
                      THEN /\ jobs'[id].status = "queued"
                           /\ jobs'[id].retry_count = jobs[id].retry_count + 1
                      ELSE /\ jobs'[id].status = "failed"
                           /\ jobs'[id].retry_count = jobs[id].retry_count

\* C15: fail_job on a claimed job re-queues it with retry_count + 1 while
\* retry_count < max_attempts and marks it failed otherwise; retry_count
\* never exceeds max_attempts.
C15_RetryPolicy == []C15_Bounded /\ [][C15_FailStep]_vars

\* one batch in which a job was re-queued for its first retry and a job that
\* had used its retries was marked failed
C15_Witness ==
    \E a, b \in JobIds :
       /\ jobs[a].status = "queued"
       /\ jobs[a].retry_count = 1
       /\ jobs[b].status = "failed"
       /\ jobs[b].retry_count = jobs[b].max_attempts

(***************************************************************************)
(* C16: retries are bounded.                                               *)
(***************************************************************************)
\* the Store hands a job to claim_jobs at most max_attempts + 1 times: once
\* when it is new and once per re-queue
C16_ClaimsBounded ==
    \A id \in JobIds :
       Exists(jobs, id) =>
          /\ attempts[id] <= jobs[id].retry_count + 1
          /\ attempts[id] <= jobs[id].max_attempts + 1

\* a job ends failed only when the handler raised on every attempt the
\* policy grants, and completed only when an attempt returned a result
C16_Exhausted ==
    \A id \in JobIds :
       /\ jobs[id].status = "failed" =>
             /\ jobs[id].retry_count = jobs[id].max_attempts
             /\ attempts[id] = jobs[id].max_attempts + 1
             /\ jobs[id].result = None
       /\ jobs[id].status = "completed" => jobs[id].result # None

C17_TimestampInvariant ==
    \A id \in JobIds :
       /\ jobs[id].status = "queued" => jobs[id].started_at = Null
       /\ jobs[id].status \in {"completed", "failed", "cancelled"} =>
             jobs[id].completed_at # Null

(***************************************************************************)
(* C18, C19: failures of the Store calls.                                  *)
(***************************************************************************)
Failed(call) == call.fault # "ok"
ScanCalls == {"claim_jobs", "check_schedules", "check_stale_anchors"}
ReportCalls == {"complete_job", "fail_job"}
PastClaimPcs == {"dispatch", "await", "complete", "fail", "sleep"}

\* C18: when the Store call inside claim_jobs, check_schedules or
\* check_stale_anchors fails, the method returns an empty list and raises
\* nothing: after a failed check the iteration goes on to claim_jobs, and
\* after a failed claim_jobs the worker dispatches nothing, makes no further
\* Store call and sleeps until the next tick.
C18_ScanFailuresAbsorbed ==
    \A t \in TaskIds :
       LET log == tasks[t].store_calls
       IN  /\ \A i \in DOMAIN log :
                 (log[i].fn \in ScanCalls /\ Failed(log[i])) => log[i].returned = 0
           /\ \A i \in DOMAIN log :
                 (log[i].fn = "claim_jobs" /\ Failed(log[i])) =>
                    /\ i = Len(log)
                    /\ tasks[t].pc = "sleep"
                    /\ tasks[t].batch = <<>>
                    /\ tasks[t].trace = <<>>
           /\ tasks[t].pc \in PastClaimPcs =>
                 \E i \in DOMAIN log : log[i].fn = "claim_jobs"
           /\ (tracing /\ tasks[t].pc = "done") => ~worker[tasks[t].w].running

\* both checks and the claim of one iteration have failed, and the task sleeps
C18_Witness ==
    \E t \in TaskIds :
       /\ tasks[t].pc = "sleep"
       /\ \A fn \in ScanCalls :
             \E i \in DOMAIN tasks[t].store_calls :
                tasks[t].store_calls[i].fn = fn /\ Failed(tasks[t].store_calls[i])

Begins(t) ==
    /\ tasks[t].pc \in {"new", "sleep"}
    /\ tasks'[t].pc \in {"schedules", "stale", "claim"}
\* check_schedules, or check_stale_anchors, of task t has returned with this step
SchedulesChecked(t) == tasks[t].pc = "schedules" /\ tasks'[t].pc # "schedules"
StaleChecked(t) == tasks[t].pc = "stale" /\ tasks'[t].pc # "stale"

C20_Step ==
    \A t \in TaskIds :
       LET w == tasks[t].w
           last_schedule_check == worker[w]._last_schedule_check
           last_stale_check == worker[w]._last_stale_check
       IN  /\ Begins(t) =>
                 /\ tasks'[t].current_time = now
                 /\ tasks'[t].pc = "schedules" <=>
                       now - last_schedule_check >= schedule_check_interval
                 /\ tasks'[t].pc = "stale" <=>
                       /\ now - last_schedule_check < schedule_check_interval
                       /\ now - last_stale_check >= stale_check_interval
           /\ SchedulesChecked(t) =>
                 /\ tasks[t].current_time - last_schedule_check >= schedule_check_interval
                 /\ worker'[w]._last_schedule_check = tasks[t].current_time
                 /\ worker'[w]._last_stale_check = last_stale_check
                 /\ tasks'[t].pc = "stale" <=>
                       tasks[t].current_time - last_stale_check >= stale_check_interval
                 /\ tasks'[t].pc # "stale" => tasks'[t].pc = "claim"
           /\ StaleChecked(t) =>
                 /\ tasks[t].current_time - last_stale_check >= stale_check_interval
                 /\ worker'[w]._last_stale_check = tasks[t].current_time
                 /\ worker'[w]._last_schedule_check = last_schedule_check
                 /\ tasks'[t].pc = "claim"
           /\ (tasks[t].pc # "none" /\ ~SchedulesChecked(t)) =>
                 worker'[w]._last_schedule_check = last_schedule_check
           /\ (tasks[t].pc # "none" /\ ~StaleChecked(t)) =>
                 worker'[w]._last_stale_check = last_stale_check

\* C20: an iteration invokes check_schedules if and only if its reading of
\* the clock is at least schedule_check_interval past _last_schedule_check;
\* _last_schedule_check changes only when the call has returned, to that
\* reading, whether the call succeeded or failed, so two consecutive
\* invocations are at least schedule_check_interval apart.  The same holds
\* of check_stale_anchors with stale_check_interval, and each check leaves
\* the timestamp of the other unchanged.
C20_CheckPacing == [][C20_Step]_vars

\* each check has been invoked a second time, its interval after the first;
\* no invocation of check_schedules reached the Store, and the second
\* check_stale_anchors has just failed
C20_Witness ==
    \E t \in TaskIds :
       LET w == tasks[t].w
       IN  /\ w \in Workers
           /\ worker[w]._last_schedule_check = PacingStart + schedule_check_interval
           /\ worker[w]._last_stale_check = PacingStart + stale_check_interval
           /\ \A s \in ScheduleIds : schedules[s].advanced = 0
           /\ \E i \in DOMAIN tasks[t].store_calls :
                 /\ tasks[t].store_calls[i].fn = "check_stale_anchors"
                 /\ Failed(tasks[t].store_calls[i])

(***************************************************************************)
(* C21: every iteration claims.                                            *)
(***************************************************************************)
ClaimCalls(log) == {i \in DOMAIN log : log[i].fn = "claim_jobs"}
CheckCalls(log) ==
    {i \in DOMAIN log : log[i].fn \in {"check_schedules", "check_stale_anchors"}}

\* where the iteration of a task stands against its claim_jobs call
C21_OneClaim ==
    \A t \in TaskIds :
       LET log == tasks[t].store_calls
       IN  /\ tasks[t].pc \in {"schedules", "stale", "claim"} =>
                 /\ ClaimCalls(log) = {}
                 /\ CheckCalls(log) = DOMAIN log
           /\ tasks[t].pc \in PastClaimPcs =>
                 /\ Cardinality(ClaimCalls(log)) = 1
                 /\ \A i \in CheckCalls(log), j \in ClaimCalls(log) : i < j

\* the claim_jobs step of an iteration, the step into the sleep and the step
\* out of it
C21_ClaimStep ==
    \A t \in TaskIds :
       LET w == tasks[t].w
       IN  /\ (tasks[t].pc = "claim" /\ tasks'[t].pc # "claim") =>
                 \E fault \in StoreFaults :
                    LET r == claim_jobs(jobs, w, get_registered_types, job_batch_size,
                                        now, fault)
                    IN  /\ jobs' = r.jobs
                        /\ tasks'[t].batch = r.data
                        /\ tasks'[t].pc = IF r.data = <<>> THEN "sleep" ELSE "dispatch"
           /\ (tasks[t].pc # "sleep" /\ tasks'[t].pc = "sleep") =>
                 tasks'[t].wake_at = now + job_poll_interval
           /\ (tasks[t].pc = "sleep" /\ tasks'[t].pc # "sleep") =>
                 now >= tasks[t].wake_at

\* C21: each iteration of the loop calls claim_jobs exactly once, with the
\* registered job types and the batch size, after the checks of the
\* iteration, whether these ran, failed or were not due; after the batch the
\* loop sleeps, and the next iteration begins no sooner than one poll
\* interval later.
C21_EveryIterationClaims == []C21_OneClaim /\ [][C21_ClaimStep]_vars

\* an iteration in which no check was due has claimed and sleeps, after an
\* iteration in which both checks ran
C21_Witness ==
    \E t \in TaskIds :
       /\ tasks[t].pc = "sleep"
       /\ tasks[t].wake_at = now + job_poll_interval
       /\ Len(tasks[t].store_calls) >= 1
       /\ tasks[t].store_calls[1].fn = "claim_jobs"
       /\ worker[tasks[t].w]._last_schedule_check = PacingStart
       /\ worker[tasks[t].w]._last_stale_check = PacingStart

(***************************************************************************)
(* C22: the claim set is closed.                                           *)
(***************************************************************************)
\* C22: the job types of every worker are types with a registered handler;
\* every job a loop task holds is of such a type, and no dispatch ends in
\* the registry's "No handler registered" error.
C22_ClosedClaimSet ==
    /\ \A w \in Workers : worker[w].constructed => worker[w]._job_types \subseteq _handlers
    /\ \A t \in TaskIds :
          /\ \A k \in DOMAIN tasks[t].batch : jobs[tasks[t].batch[k]].job_type \in _handlers
          /\ tasks[t].pc = "fail" =>
                tasks[t].outcome # Raised(UnknownTypeError(jobs[Head(tasks[t].batch)].job_type))

\* a worker has claimed a job while an older job of a type without handler
\* was queued, and that job is still queued
C22_Witness ==
    \E a, b \in JobIds :
       /\ jobs[a].status = "queued"
       /\ jobs[a].job_type \notin _handlers
       /\ jobs[b].status = "processing"
       /\ jobs[b].started_at > jobs[a].created_at
       /\ \E t \in TaskIds : tasks[t].pc = "dispatch" /\ Head(tasks[t].batch) = b

(***************************************************************************)
(* C23: no duplicate stale-refresh jobs.                                   *)
(***************************************************************************)
AnchorJobs(a) ==
    {id \in JobIds : /\ Exists(jobs, id)
                     /\ jobs[id].payload.source = "anchor"
                     /\ jobs[id].payload.ref = a}

FirstCharsOf(m, e) ==
    /\ Len(m) = IF Len(e) <= ErrorLimit THEN Len(e) ELSE ErrorLimit
    /\ \A i \in 1..Len(m) : m[i] = e[i]

\* C24: the error_message fail_job has stored for a job is the first 1000
\* characters of the error the worker reported, the error itself when it
\* has at most 1000 characters; no stored error_message is longer.
C24_ErrorTruncated ==
    /\ \A id \in JobIds : Exists(jobs, id) => Len(jobs[id].error_message) <= ErrorLimit
    /\ \A t \in TaskIds :
          \A k \in DOMAIN tasks[t].trace :
             LET entry == tasks[t].trace[k]
             IN  (/\ entry.outcome.kind = "raised"
                  /\ jobs[entry.job].status \in {"queued", "failed"}) =>
                    FirstCharsOf(jobs[entry.job].error_message, entry.outcome.value)

\* an error of 1001 characters has been stored as its first 1000
C24_Witness ==
    \E t \in TaskIds :
       /\ Len(tasks[t].trace) = 1
       /\ Len(tasks[t].trace[1].outcome.value) = ErrorLimit + 1
       /\ jobs[tasks[t].trace[1].job].status = "failed"
       /\ Len(jobs[tasks[t].trace[1].job].error_message) = ErrorLimit

(***************************************************************************)
(* C25: complete_job on a job that is gone or terminal.                    *)
(***************************************************************************)
Last(seq) == seq[Len(seq)]
GoneOrTerminal(id) == jobs[id].status \in TerminalStatuses \cup {"absent"}

\* a complete_job call of the worker, or of another caller, on a job that
\* does not exist or is completed, failed or cancelled
C25_Step ==
    /\ \A t \in TaskIds :
          (/\ tasks[t].pc = "complete"
           /\ tasks'[t].pc # "complete"
           /\ GoneOrTerminal(Head(tasks[t].batch))) =>
             /\ jobs' = jobs /\ schedules' = schedules /\ anchors' = anchors
             /\ Last(tasks'[t].store_calls).fn = "complete_job"
             /\ Last(tasks'[t].store_calls).job = Head(tasks[t].batch)
             /\ Last(tasks'[t].store_calls).returned = FALSE
    /\ \A id \in JobIds :
          (/\ Len(completions'[id]) = Len(completions[id]) + 1
           /\ GoneOrTerminal(id)) =>
             /\ jobs' = jobs /\ schedules' = schedules /\ anchors' = anchors
             /\ Last(completions'[id]).returned = FALSE

\* C25: complete_job on a job that does not exist or is already completed,
\* failed or cancelled returns false and changes nothing in the Job Store.
C25_CompleteIsNoOp == [][C25_Step]_vars

\* the worker's complete_job has returned false for a job that the cancel
\* route had cancelled while it was being handled: the row is cancelled and
\* has no result
C25_Witness ==
    \E t \in TaskIds :
       \E i \in DOMAIN tasks[t].store_calls :
          LET call == tasks[t].store_calls[i]
          IN  /\ call.fn = "complete_job"
              /\ call.returned = FALSE
              /\ jobs[call.job].status = "cancelled"
              /\ jobs[call.job].result = None

(***************************************************************************)
(* C26: orphaned claims.                                                   *)
(***************************************************************************)
\* the job was claimed and the loop task that held it has ended without a
\* complete_job or fail_job for it
Orphaned(id) ==
    /\ jobs[id].status = "processing"
    /\ \A t \in TaskIds : ~Holds(t, id)

C26_Step ==
    \A id \in JobIds :
       Orphaned(id) =>
          /\ \/ jobs'[id] = jobs[id]
             \/ jobs'[id] = [jobs[id] EXCEPT !.status = "cancelled"]
          /\ \A t \in TaskIds : ~(Holds(t, id))'

Replaces(w) == w # NoWorker /\ _job_worker # w /\ _job_worker' = w

\* C27: when start_job_worker starts a new worker, the loop of the worker
\* that existed before has exited, and at its return _job_worker is the new
\* worker and that worker is running.
C27_ReplacesInOrder ==
    [][\A w \in Workers :
          Replaces(w) =>
             /\ worker'[w].running
             /\ tasks'[worker'[w]._task].pc = "new"
             /\ _job_worker # NoWorker =>
                   \A t \in TaskIds : tasks[t].w = _job_worker => ~Live(t)]_vars

(***************************************************************************)
(* C28: the status the supervisor reports.                                 *)
(***************************************************************************)
\* C28: get_job_worker_status reports the not-initialized status exactly
\* when _job_worker is unset and the referenced worker's status otherwise,
\* and never reports running = false while a worker started through the
\* supervisor has an active loop.
C28_StatusTruthful ==
    /\ get_job_worker_status = NotInitialized <=> _job_worker = NoWorker
    /\ _job_worker # NoWorker =>
          get_job_worker_status = get_status(worker, _job_worker)
    /\ (\E w \in Workers : HasLoop(w)) => get_job_worker_status.running

(***************************************************************************)
(* C29: stop() on a worker that is not running.                            *)
(***************************************************************************)
\* a stop() call that found worker w not running returns in this step
ReturnsEarly(w) == early_returns'[w] # early_returns[w]

\* the call leaves the worker's fields alone, cancels no task and awaits none
C29_NoOp ==
    \A w \in Workers :
       ReturnsEarly(w) =>
          /\ ~worker[w].running
          /\ worker' = worker
          /\ tasks' = tasks
          /\ calls' = calls

\* running is set by start(), which creates the loop task, and cleared by
\* stop(), which cancels it; no step of a loop task changes it
C29_OnlyStartStop ==
    \A w \in Workers :
       worker'[w].running # worker[w].running =>
          /\ now' = now
          /\ \A t \in TaskIds : tasks'[t].pc # tasks[t].pc => tasks[t].pc = "none"
          /\ IF worker'[w].running
             THEN LET t == worker'[w]._task
                  IN  /\ t # NoTask
                      /\ tasks[t].pc = "none"
                      /\ tasks'[t] = create_task(w)
             ELSE LET t == worker[w]._task
                  IN  /\ worker'[w] = [worker[w] EXCEPT !.running = FALSE]
                      /\ t # NoTask => tasks'[t].must_cancel \/ tasks[t].pc = "done"

\* C29: stop() on a worker that is not running changes neither running, the
\* task reference nor the last-check timestamps and cancels nothing, and
\* running changes only in a start() or a stop().
C29_StopWhenStopped == [][C29_NoOp /\ C29_OnlyStartStop]_vars

\* stop() has been called on a worker whose earlier stop() still awaits the
\* loop task, which had run iterations
C29_Witness ==
    \E w \in Workers : \E c \in CallIds :
       /\ early_returns[w] > 0
       /\ ~worker[w].running
       /\ worker[w]._last_schedule_check # 0
       /\ calls[c].fn = "stop"
       /\ calls[c].w = w
       /\ calls[c].t = worker[w]._task
       /\ Live(calls[c].t)

(***************************************************************************)
(* C30: get_status.                                                        *)
(***************************************************************************)
\* a last-check timestamp as the status shows it: None before the first check
Shown(ts, shown) == IF ts = 0 THEN shown = <<>> ELSE shown = <<"iso", ts>>

C30_Step ==
    health' # health =>
       /\ UNCHANGED <<storeVars, now, proc, worker, tasks, _job_worker, calls, requests,
                      completions, warnings, tracing, rights_entities, process_requests, answer, work_tickets, registry, registry_calls, early_returns, claim_call, attempts>>
       /\ LET w == health'.w
              status == health'.status
          IN  /\ status.running = worker[w].running
              /\ status.worker_id = w
              /\ Shown(worker[w]._last_schedule_check, status.last_schedule_check)
              /\ Shown(worker[w]._last_stale_check, status.last_stale_check)
              /\ status.job_types = worker[w]._job_types
              /\ status.config.job_poll_interval = job_poll_interval
              /\ status.config.schedule_check_interval = schedule_check_interval
              /\ status.config.stale_check_interval = stale_check_interval
              /\ status.config.job_batch_size = job_batch_size

\* C30: a get_status call, at whatever point of the loop, changes neither
\* the worker nor the Store, and returns the running flag, the worker id,
\* the last-check timestamps, the job types and the interval configuration
\* as they are at that moment.
C30_StatusReadOnly == [][C30_Step]_vars

\* the status was read between the check_schedules and the
\* check_stale_anchors call of the first iteration, and the worker has been
\* stopped since
C30_Witness ==
    /\ health.w = 1
    /\ health.status.running
    /\ health.status.last_schedule_check # <<>>
    /\ health.status.last_stale_check = <<>>
    /\ ~worker[1].running
    /\ worker[1]._last_stale_check # 0

(***************************************************************************)
(* C31: registering a handler for a type that has one.                     *)
(***************************************************************************)
Registrations(log, n, job_type) ==
    {i \in 1..n : log[i].fn = "register" /\ log[i].job_type = job_type}

\* the handler of the type after the first n calls: that of the last
\* registration, else the one job_handlers.py registers, else none
LastRegistered(log, n, job_type) ==
    LET regs == Registrations(log, n, job_type)
    IN  IF regs # {}
        THEN log[CHOOSE i \in regs : \A j \in regs : j <= i].func
        ELSE IF \E k \in 1..Len(Imported) : Imported[k].job_type = job_type
             THEN (CHOOSE e \in Range(Imported) : e.job_type = job_type).func
             ELSE None

\* C31: a dispatch invokes the handler of the last registration of the
\* job's type, every registered type is listed exactly once, and a
\* registration leaves the handlers of the other types as they were.
C31_LastRegistrationWins ==
    /\ \A i \in 1..Len(registry_calls) :
          registry_calls[i].fn = "handle" =>
             registry_calls[i].func =
                LastRegistered(registry_calls, i - 1, registry_calls[i].job_type)
    /\ \A job_type \in RegTypes \cup _handlers :
          LET listed == {i \in 1..Len(keys(registry)) : keys(registry)[i] = job_type}
          IN  /\ Cardinality(listed) <= 1
              /\ LastRegistered(registry_calls, Len(registry_calls), job_type) # None
                    => Cardinality(listed) = 1
              /\ \A i \in listed :
                    registry[i].func =
                       LastRegistered(registry_calls, Len(registry_calls), job_type)

\* scheduled_work has been registered with h1 and then with h2, and a
\* scheduled_work job has been dispatched
C31_Witness ==
    /\ Len(registry_calls) = 3
    /\ registry_calls[1] = [fn |-> "register", job_type |-> "scheduled_work", func |-> "h1"]
    /\ registry_calls[2] = [fn |-> "register", job_type |-> "scheduled_work", func |-> "h2"]
    /\ registry_calls[3].fn = "handle"
    /\ registry_calls[3].job_type = "scheduled_work"
    /\ registry_calls[3].func = "h2"

(***************************************************************************)
(* C32: what handle_scheduled_work writes on a schedule.                   *)
(***************************************************************************)
LastRun(S, s) == <<S[s].last_run_at, S[s].last_run_status, S[s].last_run_ticket_id>>

C32_Step ==
    /\ \A s \in ScheduleIds :
          LastRun(schedules', s) # LastRun(schedules, s) =>
             /\ Len(work_tickets') = Len(work_tickets) + 1
             /\ LET ticket == work_tickets'[Len(work_tickets')]
                IN  /\ ticket.schedule_id = s
                    /\ ticket.id # NoTicket
                    /\ schedules'[s] =
                          [schedules[s] EXCEPT !.last_run_at = now,
                                               !.last_run_status = "success",
                                               !.last_run_ticket_id = ticket.id]
    /\ work_tickets' # work_tickets =>
          \A s \in ScheduleIds :
             /\ schedules'[s].next_run_at = schedules[s].next_run_at
             /\ schedules'[s].advanced = schedules[s].advanced

\* C32: the handler stamps last_run_at, last_run_status and
\* last_run_ticket_id on a schedule only in a run that has created a work
\* ticket for that schedule and got its id, with that id as
\* last_run_ticket_id, and it writes no other field of a schedule.
C32_StampAfterTicket == [][C32_Step]_vars

\* the schedule carries the stamp of the second ticket: the first ticket
\* was created for a job without schedule
C32_Witness ==
    /\ Len(work_tickets) = 2
    /\ work_tickets[1].schedule_id = 0
    /\ work_tickets[2].schedule_id = 1
    /\ schedules[1].last_run_ticket_id = 2
    /\ schedules[1].last_run_status = "success"

(***************************************************************************)
(* C39: work tickets per scheduled job.                                    *)
(***************************************************************************)
\* the tickets created by the runs of the handler on the job of a schedule
\* occurrence: its payload names the schedule and the occurrence
TicketsOf(id) ==
    {i \in 1..Len(work_tickets) :
        /\ work_tickets[i].schedule_id = jobs[id].payload.ref
        /\ work_tickets[i].triggered_at = jobs[id].payload.due}

\* C39: over all attempts of a scheduled_work job the handler creates at
\* most one work ticket, also when an attempt failed after its insert.
C39_OneTicketPerJob ==
    \A id \in JobIds :
       (Exists(jobs, id) /\ jobs[id].payload.source = "schedule") =>
          Cardinality(TicketsOf(id)) <= 1

(***************************************************************************)
(* C33: the retry route.                                                   *)
(***************************************************************************)
\* the row the retry route inserts in this step for the job it retries
Retried(id) ==
    /\ ~Exists(jobs, id)
    /\ Exists(jobs', id)
    /\ jobs'[id].payload.source = "retry"

C33_Step ==
    \A id \in JobIds :
       Retried(id) =>
          LET original == jobs'[id].payload.ref
          IN  /\ jobs[original].status = "failed"
              /\ jobs'[id].status = "queued"
              /\ jobs'[id].job_type = jobs[original].job_type
              /\ jobs'[id].rights_entity_id = jobs[original].rights_entity_id
              /\ jobs'[id].asset_id = jobs[original].asset_id
              /\ jobs'[id].config = jobs[original].config
              /\ \A other \in JobIds \ {id} : jobs'[other] = jobs[other]

\* C33: the retry route inserts a row only for a job that is failed, and
\* then one queued row with the job's type, entity, asset and config; the
\* job and every other row stay as they are.
C33_RetryCreatesRow == [][C33_Step]_vars

\* a failed job of an entity with asset and config, and its retry, which the
\* worker has claimed
C33_Witness ==
    \E id \in JobIds :
       /\ Exists(jobs, id)
       /\ jobs[id].payload.source = "retry"
       /\ jobs[id].status = "processing"
       /\ jobs[id].asset_id = 1
       /\ jobs[id].config = "c1"
       /\ jobs[jobs[id].payload.ref].status = "failed"

(***************************************************************************)
(* C34: GET /health/jobs.                                                  *)
(***************************************************************************)
\* the answer carries every field of the status, and ok is its running flag
C34_Answer ==
    /\ answer.status_code = 500 <=> answer.read.kind = "raised"
    /\ answer.status_code = 500 => ~answer.content.ok
    /\ answer.status_code = 200 =>
          LET status == answer.read.value
          IN  /\ answer.content.ok = status.running
              /\ answer.content.running = status.running
              /\ DOMAIN answer.content = DOMAIN status \cup {"ok"}
              /\ \A field \in DOMAIN status : answer.content[field] = status[field]

\* the status answered is the status of the moment of the call
C34_Step ==
    (answer' # answer /\ answer'.read.kind = "returned") =>
       /\ answer'.read.value = get_job_worker_status
       /\ _job_worker = NoWorker => ~answer'.content.ok

\* C34: GET /health/jobs answers with the fields of the worker status and
\* an ok field equal to the reported running flag, false when no worker is
\* set, and with status 500 and ok = false exactly when reading the status
\* raised.
C34_HealthEndpoint == []C34_Answer /\ [][C34_Step]_vars

\* the route has answered ok = true with the status of a worker that had
\* run its checks, and the worker has been stopped since
C34_Witness ==
    /\ answer.status_code = 200
    /\ answer.content.ok
    /\ answer.content.last_stale_check # <<>>
    /\ _job_worker = NoWorker

(***************************************************************************)
(* C35: stopping changes no job.                                           *)
(***************************************************************************)
\* a step of stop(): running is cleared, or an awaiting stop() returns
StopStep ==
    \/ \E w \in Workers : worker[w].running /\ ~worker'[w].running
    \/ \E c \in CallIds : calls[c].fn = "stop" /\ calls'[c].fn = "none"

\* the worker has been stopped and started again: t is its new task
Restarted(w, t) ==
    /\ worker[w].running
    /\ worker[w]._task = t
    /\ \E old \in TaskIds \ {t} : tasks[old].w = w /\ tasks[old].pc # "none"

QueuedJobs == {id \in JobIds : jobs[id].status = "queued"}
\* the new task has not run yet, and jobs are queued
RestartedOnQueue ==
    /\ QueuedJobs # {}
    /\ \E w \in Workers : \E t \in TaskIds : Restarted(w, t) /\ tasks[t].pc = "new"

\* a step of stop() changes no row, and a queued row changes only when the
\* current task of a running worker claims it
C35_Step ==
    /\ StopStep => jobs' = jobs
    /\ \A id \in JobIds :
          (jobs[id].status = "queued" /\ jobs'[id] # jobs[id]) =>
             /\ jobs'[id].status = "processing"
             /\ \E t \in TaskIds :
                   /\ tasks[t].pc = "claim"
                   /\ worker[tasks[t].w].running
                   /\ worker[tasks[t].w]._task = t
                   /\ jobs'[id].worker_id = tasks[t].w

\* C35: stop() changes no job row; a job that is queued when the worker is
\* stopped stays queued while no worker runs, and once the worker has been
\* started again its new loop claims every such job (unless it is stopped
\* first).
C35_StoppingChangesNoJob ==
    /\ [][C35_Step]_vars
    /\ RestartedOnQueue ~> (QueuedJobs = {} \/ \A w \in Workers : ~worker[w].running)

\* a job that the first loop had tried and put back in the queue before the
\* worker was stopped, claimed by the loop started afterwards
C35_Witness ==
    \E id \in JobIds : \E t \in TaskIds :
       /\ Restarted(1, t)
       /\ jobs[id].status = "processing"
       /\ jobs[id].retry_count > 0
       /\ tasks[t].pc = "dispatch"
       /\ \A c \in CallIds : calls[c].fn = "none"

(***************************************************************************)
(* C36: sequential in-order processing of a batch.                         *)
(***************************************************************************)
IsReport(call) == call.fn \in {"complete_job", "fail_job"}
\* the complete_job and fail_job calls of an iteration, in the order made
ReportsOf(t) == SelectSeq(tasks[t].store_calls, IsReport)
BatchPcs == {"dispatch", "await", "complete", "fail"}

\* C36: within one batch the jobs are dispatched in the order claim_jobs
\* returned them, one at a time: the handler of job k+1 is started only
\* after complete_job or fail_job has been called for job k, and the one
\* claim_jobs call of the iteration precedes them all; the iteration ends,
\* and the next claim_jobs call can come, only when every job of the batch
\* has been reported.
C36_SequentialInOrder ==
    \A t \in TaskIds :
       LET claimed == tasks[t].claimed
           trace == tasks[t].trace
           reports == ReportsOf(t)
           log == tasks[t].store_calls
       IN  /\ Len(trace) <= Len(claimed)
           /\ \A k \in 1..Len(trace) : trace[k].job = claimed[k]
           /\ Len(reports) <= Len(trace)
           /\ \A k \in 1..Len(reports) : reports[k].job = claimed[k]
           /\ Len(trace) <= Len(reports) + 1
           /\ Len(trace) = Len(reports) + 1 <=> tasks[t].pc \in {"await", "complete", "fail"}
           /\ \A i \in ClaimCalls(log), j \in DOMAIN log : IsReport(log[j]) => i < j
           /\ tasks[t].pc \in BatchPcs =>
                 tasks[t].batch = SubSeq(claimed, Len(reports) + 1, Len(claimed))
           /\ tasks[t].pc \notin BatchPcs => tasks[t].batch = <<>>
           /\ tasks[t].pc = "sleep" => Len(reports) = Len(claimed)

\* a batch of two: the first job's handler raised and fail_job has been
\* called for it, and the second job is about to be dispatched
C36_Witness ==
    \E t \in TaskIds :
       /\ tasks[t].pc = "dispatch"
       /\ Len(tasks[t].claimed) = 2
       /\ Len(tasks[t].trace) = 1
       /\ tasks[t].trace[1].outcome.kind = "raised"
       /\ Len(ReportsOf(t)) = 1
       /\ ReportsOf(t)[1].fn = "fail_job"
       /\ tasks[t].batch = <<tasks[t].claimed[2]>>

(***************************************************************************)
(* C37: the job types of a worker are fixed at its construction.           *)
(***************************************************************************)
\* the types registered since the worker was constructed
RegisteredLate(w) == _handlers \ worker[w]._job_types

C37_Step ==
    /\ \A w \in Workers :
          /\ (~worker[w].constructed /\ worker'[w].constructed) =>
                worker'[w]._job_types = get_registered_types
          /\ worker[w].constructed => worker'[w]._job_types = worker[w]._job_types
    /\ \A t \in TaskIds :
          (tasks[t].pc = "claim" /\ tasks'[t].pc # "claim") =>
             LET w == tasks[t].w
             IN  /\ jobs' = claim_jobs(jobs, w, worker[w]._job_types, job_batch_size,
                                       now, "ok").jobs
                 /\ \A k \in DOMAIN tasks'[t].batch :
                       jobs[tasks'[t].batch[k]].job_type \notin RegisteredLate(w)

\* no worker holds or has held a job of a type outside its job types
C37_NeverClaimsLate ==
    \A id \in JobIds : \A w \in Workers :
       (Exists(jobs, id) /\ jobs[id].worker_id = w) =>
          jobs[id].job_type \in worker[w]._job_types

\* C37: the job types a worker passes to claim_jobs are the types registered
\* when it was constructed; they never change afterwards, and a job of a
\* type registered later is never claimed by that worker.
C37_TypesFixedAtConstruction == [][C37_Step]_vars /\ []C37_NeverClaimsLate

\* a running worker has finished an iteration while a job of a type
\* registered after its construction was queued, and the job is still queued
C37_Witness ==
    \E w \in Workers : \E t \in TaskIds : \E id \in JobIds :
       /\ worker[w].running
       /\ worker[w]._task = t
       /\ tasks[t].pc = "sleep"
       /\ jobs[id].status = "queued"
       /\ jobs[id].job_type \in RegisteredLate(w)
       /\ \E other \in JobIds : Exists(jobs, other) /\ jobs[other].worker_id = w

(***************************************************************************)
(* C38: the first iteration runs both checks.                              *)
(***************************************************************************)
\* the methods of the executor calls of the task's iteration, in order
Methods(t) == [i \in DOMAIN tasks[t].store_calls |-> tasks[t].store_calls[i].fn]

\* the task is in, or sleeps after, the first iteration of a worker that was
\* started when the clock showed StartTime
FirstIteration(t) ==
    /\ tasks[t].pc \notin {"none", "new", "done"}
    /\ now = StartTime

\* C38: in the first iteration of a newly constructed worker check_schedules
\* and then check_stale_anchors are called before claim_jobs: while a
\* last-check timestamp is still 0 the loop has not passed that check, and
\* the calls of the first iteration begin with the two checks, in that
\* order, followed by the claim.
C38_FirstTickScans ==
    \A t \in TaskIds :
       LET w == tasks[t].w
           log == Methods(t)
       IN  tasks[t].pc \notin {"none", "done"} =>
              /\ worker[w]._last_schedule_check = 0 =>
                    tasks[t].pc \in {"new", "schedules"} /\ log = <<>>
              /\ worker[w]._last_stale_check = 0 =>
                    /\ tasks[t].pc \in {"new", "schedules", "stale"}
                    /\ ClaimCalls(tasks[t].store_calls) = {}
              /\ (FirstIteration(t) /\ tasks[t].pc = "stale") => log = <<"check_schedules">>
              /\ (FirstIteration(t) /\ tasks[t].pc = "claim") =>
                    log = <<"check_schedules", "check_stale_anchors">>
              /\ (FirstIteration(t) /\ tasks[t].pc \in PastClaimPcs) =>
                    /\ Len(log) >= 3
                    /\ SubSeq(log, 1, 3) = <<"check_schedules", "check_stale_anchors", "claim_jobs">>

\* the first iteration has claimed a batch after both checks, the first of
\* which failed in the Store
C38_Witness ==
    \E t \in TaskIds :
       /\ FirstIteration(t)
       /\ tasks[t].pc = "dispatch"
       /\ Len(tasks[t].store_calls) = 3
       /\ Failed(tasks[t].store_calls[1])
       /\ worker[tasks[t].w]._last_schedule_check = StartTime
       /\ worker[tasks[t].w]._last_stale_check = StartTime

(***************************************************************************)
(* C40: one active embedding job per entity.                               *)
(***************************************************************************)
\* C40: with the process route called without force, at most one
\* embedding_generation job that is queued or processing exists for an
\* entity, whatever the interleaving of the requests.
C40_OneActiveEmbeddingJob ==
    \A entity_id \in EntityIds : Cardinality(ActiveEmbeddingJobs(jobs, entity_id)) <= 1

====
